---- MODULE Spec2Model ----
(***************************************************************************)
(* tree-tags: the per-file tree walk (crawler.rs, TreeCrawler), the file   *)
(* pipeline and worker pool (crawler.rs, DirCrawler) and the SQLite store  *)
(* (store.rs).                                                             *)
(*                                                                         *)
(* A syntax tree is data: nodes numbered in pre-order, node 1 the root,    *)
(* each with its parent, its property bag (what the property sheet gives   *)
(* the node), its text and its start and end points.  Text is a sequence   *)
(* of code points, so byte length and character count differ.              *)
(*                                                                         *)
(* The database is one committed state `db`; a worker inside a file        *)
(* transaction holds a working copy of it (SQLite's single-writer          *)
(* transaction: `lock` names the connection holding the write lock).       *)
(***************************************************************************)
EXTENDS Integers, Sequences, FiniteSets, TLC

VARIABLES
    content,      \* path -> the tree the file on disk parses to
    db,           \* the committed database: what any other connection reads
    lock,         \* the worker whose connection holds the write lock, or 0
    todo,         \* paths the directory walker has not handed out yet
    threads,      \* the worker threads of the running crawl_path
    pc,           \* worker -> where it is in crawl_file
    cur,          \* worker -> the path it is processing
    tree,         \* worker -> the tree it parsed (its own copy of the file)
    cursor,       \* worker -> node the property cursor is at
    visited_node, \* worker -> crawl_tree's visited_node flag
    crawler,      \* worker -> the TreeCrawler: scope_stack, module_stack, store
    before,       \* worker -> the committed database when its transaction began
    indexed,      \* path -> the tree whose walk was last committed, or NoTree
    last_error,   \* crawl_path's shared last-error slot
    quit,         \* a worker returned WalkState::Quit
    runs,         \* index commands started so far
    edits,        \* file modifications so far
    answer,       \* what the last find-definition command got, or NoAnswer
    registry,     \* the LanguageRegistry behind its mutex, and each worker's call
    events,       \* worker -> the enter_node and leave_node calls of its crawl_tree
    disk,         \* path -> what crawl_file meets: extension, readable, valid UTF-8
    query         \* the find-definition command between its statements, or NoQuery

vars == <<content, db, lock, todo, threads, pc, cur, tree, cursor, visited_node,
          crawler, before, indexed, last_error, quit, runs, edits, answer, registry,
          events, disk, query>>

(***************************************************************************)
(* Bounds                                                                  *)
(***************************************************************************)
MaxWorkers == 2

MaxNodes == 3

MaxRuns == 2

MaxEdits == 1

MaxColumn == 9

\* crawl_file calls on the language registry per process
MaxRequests == 3

Workers == 1..MaxWorkers

(***************************************************************************)
(* Values                                                                  *)
(***************************************************************************)
\* a property missing from a node's bag, and None for an optional kind
NoVal == "absent"

\* an optional name: <<>> is None, <<v>> is Some(v)
None == <<>>

Some(v) == <<v>>

NoTree == [n |-> 0]

NoAnswer == [asked |-> FALSE]

NoQuery == [stage |-> "none"]

\* identifier texts as code points: x, y, and e-acute (two bytes in UTF-8)
NameX == <<120>>

NameY == <<121>>

NameE == <<233>>

Tab == 9

KindF == "function"

KindB == "block"

Min(S) == CHOOSE x \in S : \A y \in S : x <= y

Max(S) == CHOOSE x \in S : \A y \in S : x >= y

Last(s) == s[Len(s)]

Front(s) == SubSeq(s, 1, Len(s) - 1)

\* bytes of one code point in UTF-8
Utf8Width(c) == IF c < 128 THEN 1 ELSE IF c < 2048 THEN 2 ELSE IF c < 65536 THEN 3 ELSE 4

RECURSIVE ByteLen(_)
\* name.as_bytes().len()
ByteLen(text) == IF text = <<>> THEN 0 ELSE Utf8Width(Head(text)) + ByteLen(Tail(text))

Point(r, c) == [row |-> r, column |-> c]

\* Point's derived ordering: by row, then by column
PointGT(a, b) == a.row > b.row \/ (a.row = b.row /\ a.column > b.column)

(***************************************************************************)
(* Property bags and trees                                                 *)
(***************************************************************************)
NoProps ==
    [local_definition |-> NoVal, local_is_hoisted |-> NoVal, local_reference |-> NoVal,
     local_scope |-> NoVal, scope_type |-> NoVal, module |-> NoVal, module_part |-> NoVal,
     definition |-> NoVal, definition_part |-> NoVal, definition_type |-> NoVal,
     reference |-> NoVal, reference_type |-> NoVal]

\* get_property / has_property / has_property_value on the current node's bag
get_property(props, prop) == props[prop]

has_property(props, prop) == get_property(props, prop) # NoVal

has_property_value(props, prop, value) == get_property(props, prop) = value

\* the cursor's moves on a tree numbered in pre-order; 0 when the move fails
goto_first_child(t, i) == IF i < t.n /\ t.parent[i + 1] = i THEN i + 1 ELSE 0

goto_next_sibling(t, i) ==
    LET later == {j \in (i + 1)..t.n : t.parent[j] = t.parent[i]}
    IN  IF later = {} THEN 0 ELSE Min(later)

goto_parent(t, i) == t.parent[i]

(***************************************************************************)
(* The store: tables are sequences of rows in rowid order                  *)
(***************************************************************************)
EmptyDb == [files |-> <<>>, defs |-> <<>>, refs |-> <<>>, local_defs |-> <<>>, local_refs |-> <<>>]

Rows(table) == {table[i] : i \in 1..Len(table)}

\* the rowid SQLite gives a new row of an INTEGER PRIMARY KEY table
NextRowId(table) == IF table = <<>> THEN 1 ELSE Max({r.id : r \in Rows(table)}) + 1

\* deleting files rows takes the rows of the four fact tables that carry their ids
DeleteFileRows(d, ids) ==
    LET keepFile(r) == r.id \notin ids
        keepFact(r) == r.file_id \notin ids
    IN  [files |-> SelectSeq(d.files, keepFile), defs |-> SelectSeq(d.defs, keepFact),
         refs |-> SelectSeq(d.refs, keepFact), local_defs |-> SelectSeq(d.local_defs, keepFact),
         local_refs |-> SelectSeq(d.local_refs, keepFact)]

IsPrefix(p, s) == Len(p) <= Len(s) /\ SubSeq(s, 1, Len(p)) = p

\* delete_files with instr(path, ?1) >= 1: the prefix anywhere in the path
delete_files_containing(d, prefix) ==
    LET occurs(s) == \E k \in 0..(Len(s) - Len(prefix)) : SubSeq(s, k + 1, k + Len(prefix)) = prefix
    IN  DeleteFileRows(d, {r.id : r \in {f \in Rows(d.files) : occurs(f.path)}})

\* Store::delete_files: DELETE FROM files WHERE instr(path, ?1) = 1
delete_files(d, prefix) ==
    DeleteFileRows(d, {r.id : r \in {f \in Rows(d.files) : IsPrefix(prefix, f.path)}})

\* LIMIT 50 of find_definition's global query
Limit == 50

\* SQLite's length() of a TEXT value: its characters
CharLen(text) == Len(text)

\* find_definition returned Err: query_row found no files row
NoRows == [ok |-> FALSE, error |-> "QueryReturnedNoRows", result |-> <<>>]

Found(result) == [ok |-> TRUE, error |-> "none", result |-> result]

\* the local query with the end of the reference included
LocalMatchesInclusive(d, file_id, position) ==
    {<<r, l>> \in Rows(d.local_refs) \X Rows(d.local_defs) :
        /\ r.definition_id = l.id
        /\ r.file_id = file_id
        /\ r.row = position.row
        /\ r.column <= position.column
        /\ r.column + r.length >= position.column}

\* find_definition's local query: the local_refs rows of the file that cover
\* the position, joined to local_defs by definition_id
LocalMatches(d, file_id, position) ==
    {<<r, l>> \in Rows(d.local_refs) \X Rows(d.local_defs) :
        /\ r.definition_id = l.id
        /\ r.file_id = file_id
        /\ r.row = position.row
        /\ r.column <= position.column
        /\ r.column + r.length > position.column}

\* find_definition's global query: files, defs and refs joined in table
\* order, the refs those of the file that cover the position, LIMIT 50
GlobalMatches(d, file_id, position) ==
    LET covers(r) == /\ r.file_id = file_id
                     /\ r.row = position.row
                     /\ r.column <= position.column
                     /\ r.column + CharLen(r.name) > position.column
        refs == SelectSeq(d.refs, covers)
        pairs == {<<i, j, k>> \in (DOMAIN d.files) \X (DOMAIN d.defs) \X (DOMAIN refs) :
                     /\ d.files[i].id = d.defs[j].file_id
                     /\ d.defs[j].name = refs[k].name}
        earlier(a, b) == \/ a[1] < b[1]
                         \/ (a[1] = b[1] /\ a[2] < b[2])
                         \/ (a[1] = b[1] /\ a[2] = b[2] /\ a[3] < b[3])
        rank(a) == 1 + Cardinality({b \in pairs : earlier(b, a)})
        nth(n) == CHOOSE a \in pairs : rank(a) = n
    IN  [n \in 1..Min({Limit, Cardinality(pairs)}) |->
            [path |-> d.files[nth(n)[1]].path,
             position |-> Point(d.defs[nth(n)[2]].name_start_row,
                                d.defs[nth(n)[2]].name_start_column),
             length |-> CharLen(d.defs[nth(n)[2]].name)]]

\* find_definition with query_row(..).optional(): an absent path gives an
\* empty result
find_definition_lenient(d, path, position) ==
    LET ids == {f.id : f \in {r \in Rows(d.files) : r.path = path}}
    IN  IF ids = {} THEN {Found(<<>>)}
        ELSE LET file_id == CHOOSE id \in ids : TRUE
                 local == LocalMatches(d, file_id, position)
             IN  IF local # {}
                 THEN {Found(<<[path |-> path, position |-> Point(m[2].row, m[2].column),
                                length |-> m[2].length]>>) : m \in local}
                 ELSE {Found(GlobalMatches(d, file_id, position))}

\* find_definition running its stages with file id 0 when the path is absent
find_definition_unchecked(d, path, position) ==
    LET ids == {f.id : f \in {r \in Rows(d.files) : r.path = path}}
        file_id == IF ids = {} THEN 0 ELSE CHOOSE id \in ids : TRUE
        local == LocalMatches(d, file_id, position)
    IN  IF local # {}
        THEN {Found(<<[path |-> path, position |-> Point(m[2].row, m[2].column),
                       length |-> m[2].length]>>) : m \in local}
        ELSE {Found(GlobalMatches(d, file_id, position))}

\* find_definition asking the global query first
find_definition_global_first(d, path, position) ==
    LET ids == {f.id : f \in {r \in Rows(d.files) : r.path = path}}
    IN  IF ids = {} THEN {NoRows}
        ELSE LET file_id == CHOOSE id \in ids : TRUE
                 local == LocalMatches(d, file_id, position)
                 global == GlobalMatches(d, file_id, position)
             IN  IF global # <<>> \/ local = {} THEN {Found(global)}
                 ELSE {Found(<<[path |-> path, position |-> Point(m[2].row, m[2].column),
                                length |-> m[2].length]>>) : m \in local}

\* Store::find_definition: the outcomes it can return on database d (SQLite
\* may give the rows of the local query in any order; query_row takes the
\* first)
find_definition(d, path, position) ==
    LET ids == {f.id : f \in {r \in Rows(d.files) : r.path = path}}
    IN  IF ids = {} THEN {NoRows}
        ELSE LET file_id == CHOOSE id \in ids : TRUE
                 local == LocalMatches(d, file_id, position)
             IN  IF local # {}
                 THEN {Found(<<[path |-> path, position |-> Point(m[2].row, m[2].column),
                                length |-> m[2].length]>>) : m \in local}
                 ELSE {Found(GlobalMatches(d, file_id, position))}

\* Store::file without its DELETE: the path's earlier row stays
file_keeping_row(d, path) ==
    LET id == NextRowId(d.files)
    IN  [file_id |-> id, db |-> [d EXCEPT !.files = Append(@, [id |-> id, path |-> path])]]

\* Store::file: DELETE FROM files WHERE path = ?1; INSERT INTO files (path);
\* the StoreFile holds the transaction and last_insert_rowid()
file(d, path) ==
    LET cleared == DeleteFileRows(d, {r.id : r \in {f \in Rows(d.files) : f.path = path}})
        id == NextRowId(cleared.files)
    IN  [file_id |-> id,
         db |-> [cleared EXCEPT !.files = Append(@, [id |-> id, path |-> path])]]

\* insert_local_def binding the new row's id where the file's id belongs
insert_local_def_own_id(store, name, position) ==
    LET id == NextRowId(store.db.local_defs)
    IN  [store |-> [store EXCEPT !.db.local_defs =
                        Append(@, [id |-> id, file_id |-> id, row |-> position.row,
                                   column |-> position.column, length |-> ByteLen(name)])],
         id |-> id]

\* StoreFile::insert_local_def: the new row, and last_insert_rowid()
insert_local_def(store, name, position) ==
    LET id == NextRowId(store.db.local_defs)
    IN  [store |-> [store EXCEPT !.db.local_defs =
                        Append(@, [id |-> id, file_id |-> store.file_id, row |-> position.row,
                                   column |-> position.column, length |-> ByteLen(name)])],
         id |-> id]

\* StoreFile::insert_local_ref
insert_local_ref(store, local_def_id, name, position) ==
    [store EXCEPT !.db.local_refs =
        Append(@, [id |-> NextRowId(@), file_id |-> store.file_id,
                   definition_id |-> local_def_id, row |-> position.row,
                   column |-> position.column, length |-> ByteLen(name)])]

\* StoreFile::insert_ref
insert_ref(store, name, position, kind) ==
    [store EXCEPT !.db.refs =
        Append(@, [id |-> NextRowId(@), file_id |-> store.file_id, name |-> name,
                   row |-> position.row, column |-> position.column, kind |-> kind])]

RECURSIVE JoinPath(_)
\* insert_def's module_path_string: every entry followed by a tab
JoinPath(module_path) ==
    IF module_path = <<>> THEN <<>>
    ELSE Head(module_path) \o <<Tab>> \o JoinPath(Tail(module_path))

\* StoreFile::insert_def
insert_def(store, name, name_position, start_position, end_position, kind, module_path) ==
    [store EXCEPT !.db.defs =
        Append(@, [id |-> NextRowId(@), file_id |-> store.file_id,
                   start_row |-> start_position.row, start_column |-> start_position.column,
                   end_row |-> end_position.row, end_column |-> end_position.column,
                   name |-> name, name_start_row |-> name_position.row,
                   name_start_column |-> name_position.column, kind |-> kind,
                   module_path |-> JoinPath(module_path)])]

(***************************************************************************)
(* TreeCrawler: the walker's state is [scope_stack, module_stack, store,   *)
(* panicked]; panicked records an unwrap() of None                         *)
(***************************************************************************)
Node(t, i) == [props |-> t.props[i], text |-> t.text[i],
               start_position |-> t.start[i], end_position |-> t.end[i]]

Panic(c) == [c EXCEPT !.panicked = TRUE]

\* TreeCrawler::top_scope: the index of the innermost scope that is the file
\* scope or, when a kind is asked for, has that kind; 0 when the stack is empty
top_scope(scope_stack, kind) ==
    LET found(i) == i = 1 \/ kind = NoVal \/ scope_stack[i].kind = kind
    IN  IF scope_stack = <<>> THEN 0
        ELSE Max({i \in 1..Len(scope_stack) : found(i)})

\* TreeCrawler::push_scope
push_scope(c, kind) ==
    [c EXCEPT !.scope_stack =
        Append(@, [kind |-> kind, local_refs |-> <<>>, local_defs |-> <<>>,
                   hoisted_local_defs |-> <<>>])]

\* TreeCrawler::push_module
push_module(c) ==
    [c EXCEPT !.module_stack =
        Append(@, [name |-> None, definitions |-> <<>>, pending_definition_stack |-> <<>>])]

\* HashMap::insert: a later entry for the same key replaces the earlier one
MapInsert(m, key, value) == [k \in (DOMAIN m) \cup {key} |-> IF k = key THEN value ELSE m[k]]

RECURSIVE FlushLocalDefsByIndex(_, _, _, _)
\* pop_scope's first loop keeping each def's place in the list, not its row id
FlushLocalDefsByIndex(store, local_defs, i, ids) ==
    IF i > Len(local_defs) THEN [store |-> store, ids |-> ids]
    ELSE LET r == insert_local_def(store, local_defs[i].name, local_defs[i].position)
         IN  FlushLocalDefsByIndex(r.store, local_defs, i + 1, Append(ids, i))

RECURSIVE FlushLocalDefs(_, _, _, _)
\* pop_scope's first loop: insert every local def in list order, keep the ids
FlushLocalDefs(store, local_defs, i, ids) ==
    IF i > Len(local_defs) THEN [store |-> store, ids |-> ids]
    ELSE LET r == insert_local_def(store, local_defs[i].name, local_defs[i].position)
         IN  FlushLocalDefs(r.store, local_defs, i + 1, Append(ids, r.id))

RECURSIVE FlushHoistedDefs(_, _, _, _)
\* pop_scope's second loop: insert every hoisted def in the map's iteration
\* order, keep name -> id
FlushHoistedDefs(store, hoisted, order, ids) ==
    IF order = <<>> THEN [store |-> store, ids |-> ids]
    ELSE LET name == Head(order)
             r == insert_local_def(store, name, hoisted[name])
         IN  FlushHoistedDefs(r.store, hoisted, Tail(order), MapInsert(ids, name, r.id))

RECURSIVE ScanLocalDefsAll(_, _, _, _, _)
\* pop_scope's inner loop without its break: every def of the list is scanned
ScanLocalDefsAll(local_defs, local_def_ids, local_ref, i, local_def_id) ==
    IF i > Len(local_defs) THEN local_def_id
    ELSE ScanLocalDefsAll(local_defs, local_def_ids, local_ref, i + 1,
                          IF local_defs[i].name = local_ref.name THEN local_def_ids[i]
                          ELSE local_def_id)

RECURSIVE ScanLocalDefs(_, _, _, _, _)
\* pop_scope's inner loop: scan the defs in list order, stop at the first one
\* positioned after the ref, keep the id of the last one of the ref's name
ScanLocalDefs(local_defs, local_def_ids, local_ref, i, local_def_id) ==
    IF i > Len(local_defs) THEN local_def_id
    ELSE IF PointGT(local_defs[i].position, local_ref.position) THEN local_def_id
    ELSE ScanLocalDefs(local_defs, local_def_ids, local_ref, i + 1,
                       IF local_defs[i].name = local_ref.name THEN local_def_ids[i]
                       ELSE local_def_id)

\* the definition id pop_scope finds for one ref, or 0
ResolveLocalRef(local_defs, local_def_ids, hoisted_local_def_ids, local_ref) ==
    LET local_def_id == ScanLocalDefs(local_defs, local_def_ids, local_ref, 1, 0)
    IN  IF local_def_id # 0 THEN local_def_id
        ELSE IF local_ref.name \in DOMAIN hoisted_local_def_ids
             THEN hoisted_local_def_ids[local_ref.name]
        ELSE 0

RECURSIVE ResolveLocalRefs(_, _, _, _, _, _, _)
\* pop_scope's loop over the scope's refs: insert the resolved ones, hand the
\* others to the parent scope's list (when there is a parent)
ResolveLocalRefs(store, escaped, local_refs, i, local_defs, local_def_ids, hoisted_ids) ==
    IF i > Len(local_refs) THEN [store |-> store, escaped |-> escaped]
    ELSE LET local_ref == local_refs[i]
             local_def_id == ResolveLocalRef(local_defs, local_def_ids, hoisted_ids, local_ref)
         IN  IF local_def_id # 0
             THEN ResolveLocalRefs(
                      insert_local_ref(store, local_def_id, local_ref.name, local_ref.position),
                      escaped, local_refs, i + 1, local_defs, local_def_ids, hoisted_ids)
             ELSE ResolveLocalRefs(store, Append(escaped, local_ref), local_refs, i + 1,
                                   local_defs, local_def_ids, hoisted_ids)

\* the orders a HashMap may iterate its keys in
IterationOrders(m) ==
    {order \in [1..Cardinality(DOMAIN m) -> DOMAIN m] :
        \A i, j \in DOMAIN order : i # j => order[i] # order[j]}

\* TreeCrawler::pop_scope, the hoisted map iterated in `order`
pop_scope(c, order) ==
    IF c.panicked THEN c
    ELSE IF c.scope_stack = <<>> THEN Panic(c)
    ELSE LET scope == Last(c.scope_stack)
             rest == Front(c.scope_stack)
             flushed == FlushLocalDefs(c.store, scope.local_defs, 1, <<>>)
             hoisted == FlushHoistedDefs(flushed.store, scope.hoisted_local_defs, order, <<>>)
             resolved == ResolveLocalRefs(hoisted.store, <<>>, scope.local_refs, 1,
                                          scope.local_defs, flushed.ids, hoisted.ids)
         IN  [c EXCEPT !.store = resolved.store,
                       !.scope_stack =
                           IF rest = <<>> THEN rest
                           ELSE [rest EXCEPT ![Len(rest)].local_refs = @ \o resolved.escaped]]

\* the hoisted map of the scope a pop would flush
TopHoisted(c) == IF c.scope_stack = <<>> THEN <<>> ELSE Last(c.scope_stack).hoisted_local_defs

RECURSIVE InsertDefs(_, _, _, _)
\* pop_module's loop: insert the definitions that have a name
InsertDefs(store, definitions, i, mod_path) ==
    IF i > Len(definitions) THEN store
    ELSE LET d == definitions[i]
         IN  InsertDefs(IF d.name = None THEN store
                        ELSE insert_def(store, d.name[1].text, d.name[1].position, d.start_position,
                                        d.end_position, d.kind, mod_path),
                        definitions, i + 1, mod_path)

\* pop_module's mod_path: the names of the modules on the stack, unnamed ones skipped
ModPath(module_stack) ==
    LET named(m) == m.name # None
        kept == SelectSeq(module_stack, named)
    IN  [i \in 1..Len(kept) |-> kept[i].name[1]]

\* TreeCrawler::pop_module
pop_module(c) ==
    IF c.panicked THEN c
    ELSE IF c.module_stack = <<>> THEN Panic(c)
    ELSE [c EXCEPT !.store = InsertDefs(c.store, Last(c.module_stack).definitions, 1,
                                        ModPath(c.module_stack)),
                   !.module_stack = Front(c.module_stack)]

\* TreeCrawler::pop_definition
pop_definition(c) ==
    IF c.panicked THEN c
    ELSE IF c.module_stack = <<>> THEN Panic(c)
    ELSE LET m == Len(c.module_stack)
             pending == c.module_stack[m].pending_definition_stack
         IN  IF pending = <<>> THEN Panic(c)
             ELSE [c EXCEPT !.module_stack[m].pending_definition_stack = Front(pending),
                            !.module_stack[m].definitions = Append(@, Last(pending))]

\* enter_node, lines 100-115: a local definition goes to its target scope's
\* hoisted map or local_defs list
EnterLocalDefinition(c, node) ==
    IF c.panicked \/ ~has_property_value(node.props, "local_definition", "true") THEN c
    ELSE LET target == top_scope(c.scope_stack, get_property(node.props, "scope_type"))
         IN  IF target = 0 THEN Panic(c)
             ELSE IF has_property(node.props, "local_is_hoisted")
             THEN [c EXCEPT !.scope_stack[target].hoisted_local_defs =
                                MapInsert(@, node.text, node.start_position)]
             ELSE [c EXCEPT !.scope_stack[target].local_defs =
                                Append(@, [name |-> node.text, position |-> node.start_position])]

\* enter_node's local reference without the test of is_local_def
EnterLocalReferenceAlso(c, node) ==
    IF c.panicked \/ ~has_property_value(node.props, "local_reference", "true") THEN c
    ELSE LET target == top_scope(c.scope_stack, get_property(node.props, "scope_type"))
         IN  IF target = 0 THEN Panic(c)
             ELSE [c EXCEPT !.scope_stack[target].local_refs =
                                Append(@, [name |-> node.text, position |-> node.start_position])]

\* enter_node, lines 117-123: a local reference that is not also a local definition
EnterLocalReference(c, node) ==
    IF c.panicked \/ ~has_property_value(node.props, "local_reference", "true")
       \/ has_property_value(node.props, "local_definition", "true") THEN c
    ELSE LET target == top_scope(c.scope_stack, get_property(node.props, "scope_type"))
         IN  IF target = 0 THEN Panic(c)
             ELSE [c EXCEPT !.scope_stack[target].local_refs =
                                Append(@, [name |-> node.text, position |-> node.start_position])]

\* enter_node, lines 125-131: open a scope, open a module
EnterScopeAndModule(c, node) ==
    LET c1 == IF ~c.panicked /\ has_property_value(node.props, "local_scope", "true")
              THEN push_scope(c, get_property(node.props, "scope_type")) ELSE c
    IN  IF ~c1.panicked /\ has_property_value(node.props, "module", "true")
        THEN push_module(c1) ELSE c1

\* enter_node, lines 133-141: module-part = name names the top module
EnterModulePart(c, node) ==
    IF c.panicked \/ ~has_property_value(node.props, "module_part", "name") THEN c
    ELSE IF c.module_stack = <<>> THEN Panic(c)
    ELSE [c EXCEPT !.module_stack[Len(c.module_stack)].name = Some(node.text)]

\* enter_node, lines 143-151: a definition node opens a pending definition
EnterDefinition(c, node) ==
    IF c.panicked \/ ~has_property_value(node.props, "definition", "true") THEN c
    ELSE IF c.module_stack = <<>> THEN Panic(c)
    ELSE [c EXCEPT !.module_stack[Len(c.module_stack)].pending_definition_stack =
              Append(@, [name |-> None, kind |-> get_property(node.props, "definition_type"),
                         start_position |-> node.start_position,
                         end_position |-> node.end_position])]

\* enter_node, lines 153-166: definition-part sets the top pending definition's
\* name or kind; top_definition().unwrap() panics when none is pending
EnterDefinitionPart(c, node) ==
    LET part == get_property(node.props, "definition_part")
        kind == get_property(node.props, "definition_type")
        m == Len(c.module_stack)
        touches == part = "name" \/ (part = "value" /\ kind # NoVal)
    IN  IF c.panicked \/ ~touches THEN c
        ELSE IF m = 0 THEN Panic(c)
        ELSE IF c.module_stack[m].pending_definition_stack = <<>> THEN Panic(c)
        ELSE LET top == Len(c.module_stack[m].pending_definition_stack)
             IN  IF part = "name"
                 THEN [c EXCEPT !.module_stack[m].pending_definition_stack[top].name =
                                    Some([text |-> node.text,
                                          position |-> node.start_position])]
                 ELSE [c EXCEPT !.module_stack[m].pending_definition_stack[top].kind = kind]

\* enter_node, lines 168-176: a global reference is inserted at once
EnterReference(c, node) ==
    IF c.panicked \/ ~has_property_value(node.props, "reference", "true") THEN c
    ELSE [c EXCEPT !.store = insert_ref(@, node.text, node.start_position,
                                        get_property(node.props, "reference_type"))]

\* TreeCrawler::enter_node
enter_node(c, node) ==
    EnterReference(
        EnterDefinitionPart(
            EnterDefinition(
                EnterModulePart(
                    EnterScopeAndModule(
                        EnterLocalReference(
                            EnterLocalDefinition(c, node), node), node), node), node), node), node)

\* TreeCrawler::leave_node, the popped scope's hoisted map iterated in `order`
leave_node(c, node, order) ==
    LET c1 == IF has_property(node.props, "local_scope") THEN pop_scope(c, order) ELSE c
        c2 == IF has_property(node.props, "definition") THEN pop_definition(c1) ELSE c1
    IN  IF has_property(node.props, "module") THEN pop_module(c2) ELSE c2

\* TreeCrawler::new and the head of crawl_tree: push the file scope and module
NewTreeCrawler(store) ==
    push_module(push_scope([scope_stack |-> <<>>, module_stack |-> <<>>, store |-> store,
                            panicked |-> FALSE], NoVal))

NoCrawler == [scope_stack |-> <<>>, module_stack |-> <<>>,
              store |-> [file_id |-> 0, db |-> EmptyDb], panicked |-> FALSE]

\* one order for a map's iteration, where the order does not matter
AnyOrder(m) == CHOOSE order \in IterationOrders(m) : TRUE

RECURSIVE crawl_loop(_, _, _, _)
\* crawl_tree's loop and end, run from cursor position i to the end of the
\* walk; an unwrap that panicked ends it
crawl_loop(t, c, i, visited) ==
    IF c.panicked THEN c
    ELSE IF ~visited
    THEN IF goto_first_child(t, i) # 0
         THEN crawl_loop(t, enter_node(c, Node(t, goto_first_child(t, i))),
                         goto_first_child(t, i), FALSE)
         ELSE crawl_loop(t, c, i, TRUE)
    ELSE IF goto_next_sibling(t, i) # 0
         THEN crawl_loop(t, enter_node(c, Node(t, goto_next_sibling(t, i))),
                         goto_next_sibling(t, i), FALSE)
    ELSE IF goto_parent(t, i) # 0
         THEN crawl_loop(t, leave_node(c, Node(t, goto_parent(t, i)), AnyOrder(TopHoisted(c))),
                         goto_parent(t, i), TRUE)
    ELSE LET c1 == pop_module(c)
         IN  pop_scope(c1, AnyOrder(TopHoisted(c1)))

\* TreeCrawler::crawl_tree as one function: the TreeCrawler after the walk of
\* tree t into `store`
crawl_tree(t, store) == crawl_loop(t, NewTreeCrawler(store), 1, FALSE)

(***************************************************************************)
(* Input trees                                                             *)
(***************************************************************************)
RECURSIVE AncestorsOrSelf(_, _)
AncestorsOrSelf(parent, i) == IF i = 0 THEN {} ELSE {i} \cup AncestorsOrSelf(parent, parent[i])

\* parent arrays of the trees with n nodes, numbered in pre-order
Shapes(n) ==
    {parent \in [1..n -> 0..(n - 1)] :
        /\ parent[1] = 0
        /\ \A i \in 2..n : parent[i] >= 1 /\ parent[i] < i
        /\ \A i \in 2..n : parent[i] \in AncestorsOrSelf(parent, i - 1)}

\* the last node of i's subtree
LastInSubtree(parent, n, i) == Max({j \in i..n : i \in AncestorsOrSelf(parent, j)})

RECURSIVE NestColumn(_, _)
NestColumn(parent, i) ==
    IF i = 1 THEN 0
    ELSE IF parent[i] = i - 1 THEN NestColumn(parent, i - 1)
    ELSE NestColumn(parent, i - 1) + 2

\* where the nodes start.  "rows": one node per row, columns decreasing, so
\* that rows decide the order of points.  "nest": one row; a first child
\* starts where its parent starts, any other node two columns further on.
StartPoints(parent, n, layout) ==
    [i \in 1..n |-> IF layout = "rows" THEN Point(i - 1, 2 * (n - i))
                    ELSE Point(0, NestColumn(parent, i))]

MkTree(parent, props, text, layout) ==
    LET n == Len(parent)
        start == StartPoints(parent, n, layout)
    IN  [n |-> n, parent |-> parent, props |-> props, text |-> text, start |-> start,
         end |-> [i \in 1..n |->
                    LET l == LastInSubtree(parent, n, i)
                    IN  Point(start[l].row, start[l].column + ByteLen(text[l]))]]

UsesText(props) ==
    \/ props.local_definition = "true" \/ props.local_reference = "true"
    \/ props.module_part = "name" \/ props.definition_part = "name"
    \/ props.reference = "true"

\* texts for the nodes: x or y where the walker reads the text (the first such
\* node is x: the names are interchangeable), x elsewhere
Texts(props, n) ==
    {text \in [1..n -> {NameX, NameY}] :
        \A i \in 1..n :
            text[i] = NameY =>
                UsesText(props[i]) /\ \E j \in 1..(i - 1) : UsesText(props[j])}

Layouts == {"rows", "nest"}

\* the trees with a bare root and up to `most` nodes below it, each carrying
\* one of `bags`
TreesOver(bags, most) ==
    UNION {
        UNION {
            UNION {
                {MkTree(parent, props, text, layout) :
                    text \in Texts(props, n), layout \in Layouts}
                : props \in {q \in [1..n -> bags \cup {NoProps}] :
                                q[1] = NoProps /\ \A i \in 2..n : q[i] \in bags}}
            : parent \in Shapes(n)}
        : n \in 1..(most + 1)}

\* the bags of the scope resolver: plain, hoisted and scope-typed local
\* definitions, plain and scope-typed local references, scopes of two kinds
ScopeBags ==
    {[NoProps EXCEPT !.local_definition = "true"],
     [NoProps EXCEPT !.local_definition = "true", !.local_is_hoisted = "true"],
     [NoProps EXCEPT !.local_definition = "true", !.scope_type = KindF],
     [NoProps EXCEPT !.local_reference = "true"],
     [NoProps EXCEPT !.local_reference = "true", !.scope_type = KindF],
     [NoProps EXCEPT !.local_scope = "true", !.scope_type = KindF],
     [NoProps EXCEPT !.local_scope = "true", !.scope_type = KindB]}

Path1 == <<1, 1>>

Path2 == <<1, 2>>

Paths == {Path1, Path2}

(***************************************************************************)
(* DirCrawler: crawl_path's workers and crawl_file                         *)
(***************************************************************************)
\* the statements of a StoreFile in autocommit mode: every row is committed
\* as it is written
autocommit(committed, working) == working

\* LanguageRegistry::new: the extensions the parser directories declare
language_names_by_extension ==
    [e \in {"rs", "js", "jsx"} |-> IF e = "rs" THEN "rust" ELSE "javascript"]

\* Store::file, line 41: the statements of a StoreFile run inside a transaction
\* of the worker's connection, so what the other connections read stays the
\* committed database, whatever the working copy holds
transaction(committed, working) == committed

\* the TreeCrawler a handler left: a panic unwinds the worker's thread, which
\* drops the transaction (rollback) and releases the write lock
Continue(w, c) ==
    /\ crawler' = [crawler EXCEPT ![w] = c]
    /\ db' = transaction(db, c.store.db)
    /\ pc' = [pc EXCEPT ![w] = IF c.panicked THEN "panicked" ELSE @]
    /\ lock' = IF c.panicked THEN 0 ELSE lock

\* crawl_file for an entry the directory walker hands to worker w: parse the
\* file, open the file's transaction (Store::file), build the TreeCrawler and
\* push the file scope and the file module
crawl_file_begin(w, path) ==
    /\ pc[w] = "idle" /\ ~quit /\ path \in todo
    /\ disk[path].readable
    /\ disk[path].extension \in DOMAIN language_names_by_extension
    /\ disk[path].utf8
    /\ lock = 0
    /\ todo' = todo \ {path}
    /\ events' = [events EXCEPT ![w] = <<>>]
    /\ cur' = [cur EXCEPT ![w] = path]
    /\ tree' = [tree EXCEPT ![w] = content[path]]
    /\ crawler' = [crawler EXCEPT ![w] = NewTreeCrawler(file(db, path))]
    /\ before' = [before EXCEPT ![w] = db]
    /\ lock' = w
    /\ cursor' = [cursor EXCEPT ![w] = 1]
    /\ visited_node' = [visited_node EXCEPT ![w] = FALSE]
    /\ pc' = [pc EXCEPT ![w] = "walk"]
    /\ db' = transaction(db, file(db, path).db)
    /\ UNCHANGED <<query, disk, answer, registry, content, threads, indexed, last_error, quit, runs, edits>>

\* crawl_file fails: Store::file finds the database locked by another
\* connection's transaction; the worker records the error and returns Quit
crawl_file_busy(w, path) ==
    /\ pc[w] = "idle" /\ ~quit /\ path \in todo
    /\ disk[path].readable
    /\ disk[path].extension \in DOMAIN language_names_by_extension
    /\ disk[path].utf8
    /\ lock # 0
    /\ todo' = todo \ {path}
    /\ last_error' = "err"
    /\ quit' = TRUE
    /\ pc' = [pc EXCEPT ![w] = "refused"]
    /\ UNCHANGED <<query, events, disk, answer, registry, content, db, lock, threads, cur, tree, cursor, visited_node, crawler,
                   before, indexed, runs, edits>>

\* crawl_tree's loop, line 85: the cursor moves to the first child, enter_node
first_child(w) ==
    /\ pc[w] = "walk" /\ ~visited_node[w]
    /\ goto_first_child(tree[w], cursor[w]) # 0
    /\ LET i == goto_first_child(tree[w], cursor[w])
       IN  /\ cursor' = [cursor EXCEPT ![w] = i]
           /\ events' = [events EXCEPT ![w] = Append(@, [call |-> "enter_node", node |-> i])]
           /\ Continue(w, enter_node(crawler[w], Node(tree[w], i)))
    /\ UNCHANGED <<query, disk, answer, registry, content, todo, threads, cur, tree, visited_node, before, indexed,
                   last_error, quit, runs, edits>>

\* crawl_tree's loop, line 88: no child, the node counts as visited
no_child(w) ==
    /\ pc[w] = "walk" /\ ~visited_node[w]
    /\ goto_first_child(tree[w], cursor[w]) = 0
    /\ visited_node' = [visited_node EXCEPT ![w] = TRUE]
    /\ UNCHANGED <<query, events, disk, answer, registry, content, db, lock, todo, threads, pc, cur, tree, cursor, crawler, before,
                   indexed, last_error, quit, runs, edits>>

\* crawl_tree's loop, lines 77-79: the cursor moves to the next sibling, enter_node
next_sibling(w) ==
    /\ pc[w] = "walk" /\ visited_node[w]
    /\ goto_next_sibling(tree[w], cursor[w]) # 0
    /\ LET i == goto_next_sibling(tree[w], cursor[w])
       IN  /\ cursor' = [cursor EXCEPT ![w] = i]
           /\ events' = [events EXCEPT ![w] = Append(@, [call |-> "enter_node", node |-> i])]
           /\ Continue(w, enter_node(crawler[w], Node(tree[w], i)))
    /\ visited_node' = [visited_node EXCEPT ![w] = FALSE]
    /\ UNCHANGED <<query, disk, answer, registry, content, todo, threads, cur, tree, before, indexed, last_error, quit,
                   runs, edits>>

\* crawl_tree's loop, lines 80-81: no sibling, the cursor moves to the parent,
\* leave_node
parent_node(w) ==
    /\ pc[w] = "walk" /\ visited_node[w]
    /\ goto_next_sibling(tree[w], cursor[w]) = 0
    /\ goto_parent(tree[w], cursor[w]) # 0
    /\ LET i == goto_parent(tree[w], cursor[w])
       IN  /\ cursor' = [cursor EXCEPT ![w] = i]
           /\ events' = [events EXCEPT ![w] = Append(@, [call |-> "leave_node", node |-> i])]
           /\ \E order \in IterationOrders(TopHoisted(crawler[w])) :
                  Continue(w, leave_node(crawler[w], Node(tree[w], i), order))
    /\ UNCHANGED <<query, disk, answer, registry, content, todo, threads, cur, tree, visited_node, before, indexed,
                   last_error, quit, runs, edits>>

\* crawl_tree's end, lines 83 and 91-93: the loop breaks at the root, then
\* pop_module and pop_scope; crawl_file goes on to commit
end_of_tree(w) ==
    /\ pc[w] = "walk" /\ visited_node[w]
    /\ goto_next_sibling(tree[w], cursor[w]) = 0
    /\ goto_parent(tree[w], cursor[w]) = 0
    /\ LET c1 == pop_module(crawler[w])
       IN  \E order \in IterationOrders(TopHoisted(c1)) :
               LET c2 == pop_scope(c1, order)
               IN  /\ crawler' = [crawler EXCEPT ![w] = c2]
                   /\ db' = transaction(db, c2.store.db)
                   /\ pc' = [pc EXCEPT ![w] = IF c2.panicked THEN "panicked" ELSE "commit"]
                   /\ lock' = IF c2.panicked THEN 0 ELSE lock
    /\ UNCHANGED <<query, events, disk, answer, registry, content, todo, threads, cur, tree, cursor, visited_node, before,
                   indexed, last_error, quit, runs, edits>>

\* StoreFile::commit: the transaction's rows become the committed database
commit(w) ==
    /\ pc[w] = "commit"
    /\ db' = crawler[w].store.db
    /\ lock' = 0
    /\ indexed' = [indexed EXCEPT ![cur[w]] = tree[w]]
    /\ pc' = [pc EXCEPT ![w] = "idle"]
    /\ crawler' = [crawler EXCEPT ![w] = NoCrawler]
    /\ UNCHANGED <<query, events, disk, answer, registry, content, todo, threads, cur, tree, cursor, visited_node, before,
                   last_error, quit, runs, edits>>

\* the TreeCrawler after the step crawl_tree takes next
NextHandler(w, order) ==
    LET t == tree[w]
        i == cursor[w]
        c == crawler[w]
    IN  IF ~visited_node[w]
        THEN IF goto_first_child(t, i) # 0 THEN enter_node(c, Node(t, goto_first_child(t, i)))
             ELSE c
        ELSE IF goto_next_sibling(t, i) # 0
             THEN enter_node(c, Node(t, goto_next_sibling(t, i)))
        ELSE IF goto_parent(t, i) # 0 THEN leave_node(c, Node(t, goto_parent(t, i)), order)
        ELSE pop_scope(pop_module(c), order)

\* a failing walk that commits what the walk wrote so far
step_fails_committing(w) ==
    /\ \/ pc[w] = "commit"
       \/ /\ pc[w] = "walk"
          /\ \E order \in IterationOrders(TopHoisted(crawler[w])) :
                 NextHandler(w, order).store # crawler[w].store
    /\ db' = crawler[w].store.db
    /\ lock' = 0
    /\ last_error' = "err"
    /\ quit' = TRUE
    /\ pc' = [pc EXCEPT ![w] = "quit"]
    /\ crawler' = [crawler EXCEPT ![w] = NoCrawler]
    /\ UNCHANGED <<query, events, disk, answer, registry, content, todo, threads, cur, tree, cursor, visited_node, before,
                   indexed, runs, edits>>

\* a failing walk whose worker returns Quit without storing the error
step_fails_silent(w) ==
    /\ \/ pc[w] = "commit"
       \/ /\ pc[w] = "walk"
          /\ \E order \in IterationOrders(TopHoisted(crawler[w])) :
                 NextHandler(w, order).store # crawler[w].store
    /\ lock' = 0
    /\ quit' = TRUE
    /\ pc' = [pc EXCEPT ![w] = "quit"]
    /\ crawler' = [crawler EXCEPT ![w] = NoCrawler]
    /\ UNCHANGED <<query, events, disk, answer, registry, content, db, todo, threads, cur, tree, cursor,
                   visited_node, before, indexed, last_error, runs, edits>>

\* crawl_tree()? and commit()? in crawl_file, and the closure of crawl_path,
\* lines 356-358: an insert of the next handler, or the commit, returns Err;
\* the StoreFile is dropped uncommitted, the worker stores the error and
\* returns Quit
step_fails(w) ==
    /\ \/ pc[w] = "commit"
       \/ /\ pc[w] = "walk"
          /\ \E order \in IterationOrders(TopHoisted(crawler[w])) :
                 NextHandler(w, order).store # crawler[w].store
    /\ lock' = 0
    /\ last_error' = "err"
    /\ quit' = TRUE
    /\ pc' = [pc EXCEPT ![w] = "quit"]
    /\ crawler' = [crawler EXCEPT ![w] = NoCrawler]
    /\ UNCHANGED <<query, events, disk, answer, registry, content, db, todo, threads, cur, tree, cursor, visited_node, before,
                   indexed, runs, edits>>

\* crawl_file, line 381, and the closure of crawl_path: File::open(path)? is
\* the first statement, before the extension is looked at; it fails on a file
\* the process may not read, the worker stores the error and returns Quit
crawl_file_open_fails(w, path) ==
    /\ pc[w] = "idle" /\ ~quit /\ path \in todo
    /\ ~disk[path].readable
    /\ todo' = todo \ {path}
    /\ cur' = [cur EXCEPT ![w] = path]
    /\ last_error' = "err"
    /\ quit' = TRUE
    /\ pc' = [pc EXCEPT ![w] = "quit"]
    /\ UNCHANGED <<query, events, disk, answer, registry, content, db, lock, threads, tree, cursor,
                   visited_node, crawler, before, indexed, runs, edits>>

\* crawl_file, lines 382-388 and 404: the path has no extension, or the
\* registry has no parser for it (Ok(None)); crawl_file returns Ok(()) and the
\* closure WalkState::Continue
crawl_file_no_parser(w, path) ==
    /\ pc[w] = "idle" /\ ~quit /\ path \in todo
    /\ disk[path].readable
    /\ disk[path].extension \notin DOMAIN language_names_by_extension
    /\ todo' = todo \ {path}
    /\ cur' = [cur EXCEPT ![w] = path]
    /\ UNCHANGED <<query, events, disk, answer, registry, content, db, lock, threads, pc, tree, cursor,
                   visited_node, crawler, before, indexed, last_error, quit, runs, edits>>

\* crawl_file, line 393, and the closure of crawl_path:
\* file.read_to_string(&mut source_code)? returns an error of kind InvalidData
\* on bytes that are not valid UTF-8; the worker stores it and returns Quit
crawl_file_read_fails(w, path) ==
    /\ pc[w] = "idle" /\ ~quit /\ path \in todo
    /\ disk[path].readable
    /\ disk[path].extension \in DOMAIN language_names_by_extension
    /\ ~disk[path].utf8
    /\ todo' = todo \ {path}
    /\ cur' = [cur EXCEPT ![w] = path]
    /\ last_error' = "err"
    /\ quit' = TRUE
    /\ pc' = [pc EXCEPT ![w] = "quit"]
    /\ UNCHANGED <<query, events, disk, answer, registry, content, db, lock, threads, tree, cursor,
                   visited_node, crawler, before, indexed, runs, edits>>

\* main's index command: crawl_path starts its workers on the files of the
\* directory, the last-error slot Ok
start_index ==
    /\ threads = {} /\ runs < MaxRuns
    /\ threads' = Workers
    /\ pc' = [w \in Workers |-> "idle"]
    /\ todo' = Paths
    /\ last_error' = "ok"
    /\ quit' = FALSE
    /\ runs' = runs + 1
    /\ UNCHANGED <<query, events, disk, answer, registry, content, db, lock, cur, tree, cursor, visited_node, crawler, before,
                   indexed, edits>>

\* crawl_path returns: every worker is between files, and the directory is
\* exhausted or a worker returned Quit
finish_index ==
    /\ threads # {}
    /\ \A w \in threads : pc[w] \in {"idle", "quit", "refused", "panicked"}
    /\ todo = {} \/ quit
    /\ threads' = {}
    /\ pc' = [w \in Workers |-> "off"]
    /\ todo' = {}
    /\ UNCHANGED <<query, events, disk, answer, registry, content, db, lock, cur, tree, cursor, visited_node, crawler, before,
                   indexed, last_error, quit, runs, edits>>

Prefixes == {<<1>>, Path1, Path2}

\* main's clear-index command: Store::delete_files in autocommit mode, when no
\* other connection holds the write lock
clear_index(prefix) ==
    /\ lock = 0
    /\ db' = delete_files(db, prefix)
    /\ indexed' = [p \in Paths |-> IF IsPrefix(prefix, p) THEN NoTree ELSE indexed[p]]
    /\ db' # db
    /\ UNCHANGED <<query, events, disk, answer, registry, content, lock, todo, threads, pc, cur, tree, cursor, visited_node,
                   crawler, before, last_error, quit, runs, edits>>

(***************************************************************************)
(* Files of the store specification                                        *)
(***************************************************************************)
\* a definition named x, its name also a local definition, and a call of x
\* that is a local and a global reference
TreeA ==
    MkTree(<<0, 1, 2, 1>>,
           <<NoProps,
             [NoProps EXCEPT !.definition = "true", !.definition_type = KindF],
             [NoProps EXCEPT !.definition_part = "name", !.local_definition = "true"],
             [NoProps EXCEPT !.local_reference = "true", !.reference = "true",
                             !.reference_type = "call"]>>,
           <<NameX, NameX, NameX, NameX>>, "nest")

\* TreeA with one more top-level definition, named e-acute, and a call of it
TreeB ==
    MkTree(<<0, 1, 2, 1, 1, 5, 1>>,
           <<NoProps,
             [NoProps EXCEPT !.definition = "true", !.definition_type = KindF],
             [NoProps EXCEPT !.definition_part = "name", !.local_definition = "true"],
             [NoProps EXCEPT !.local_reference = "true", !.reference = "true",
                             !.reference_type = "call"],
             [NoProps EXCEPT !.definition = "true"],
             [NoProps EXCEPT !.definition_part = "name"],
             [NoProps EXCEPT !.reference = "true"]>>,
           <<NameX, NameX, NameX, NameX, NameE, NameE, NameE>>, "nest")

\* TreeB with e-acute a local definition too, its call a local and a global
\* reference, and one more use of it that is a global reference only
TreeD ==
    MkTree(<<0, 1, 2, 1, 1, 5, 1, 1>>,
           <<NoProps,
             [NoProps EXCEPT !.definition = "true", !.definition_type = KindF],
             [NoProps EXCEPT !.definition_part = "name", !.local_definition = "true"],
             [NoProps EXCEPT !.local_reference = "true", !.reference = "true",
                             !.reference_type = "call"],
             [NoProps EXCEPT !.definition = "true"],
             [NoProps EXCEPT !.definition_part = "name", !.local_definition = "true"],
             [NoProps EXCEPT !.local_reference = "true", !.reference = "true",
                             !.reference_type = "call"],
             [NoProps EXCEPT !.reference = "true"]>>,
           <<NameX, NameX, NameX, NameX, NameE, NameE, NameE, NameE>>, "nest")

\* a block scope with a use of e-acute before two hoisted definitions, x and
\* e-acute
TreeC ==
    MkTree(<<0, 1, 2, 2, 2>>,
           <<NoProps,
             [NoProps EXCEPT !.local_scope = "true", !.scope_type = KindB],
             [NoProps EXCEPT !.local_reference = "true"],
             [NoProps EXCEPT !.local_definition = "true", !.local_is_hoisted = "true"],
             [NoProps EXCEPT !.local_definition = "true", !.local_is_hoisted = "true"]>>,
           <<NameX, NameX, NameE, NameX, NameE>>, "rows")

StoreTrees == {TreeA, TreeB, TreeC}

\* the file at `path` is edited
modify_file(path) ==
    /\ edits < MaxEdits
    /\ \E t \in StoreTrees \ {content[path]} : content' = [content EXCEPT ![path] = t]
    /\ edits' = edits + 1
    /\ UNCHANGED <<query, events, disk, answer, registry, db, lock, todo, threads, pc, cur, tree, cursor, visited_node, crawler,
                   before, indexed, last_error, quit, runs>>

(***************************************************************************)
(* Specifications                                                          *)
(***************************************************************************)
\* ---- the language registry ----------------------------------------------

Extensions == {"rs", "js", "jsx", "txt"}

LanguageNames == {"rust", "javascript"}

\* a worker that has not called the registry
NoRequest == [pc |-> "idle", extension |-> "none", language |-> 0, status |-> "none"]

\* LanguageRegistry::new and the Arc<Mutex<..>> around it: nothing loaded;
\* `library` is the state of <config>/lib/<name>.so, `compiles` and `opens`
\* count the compiler runs and the Library::new calls that succeeded, a loaded
\* language is the number of the open that gave it
LanguageRegistry_new ==
    [loaded_languages |-> [n \in LanguageNames |-> 0],
     library |-> [n \in LanguageNames |-> "missing"],
     compiles |-> [n \in LanguageNames |-> 0],
     opens |-> [n \in LanguageNames |-> 0],
     mutex |-> 0,
     request |-> [w \in Workers |-> NoRequest],
     requests |-> 0]

\* load_language_at_path: what it can leave behind and return (language 0: an
\* io error).  The compiler runs when the library is missing or older than
\* parser.c; `status` is how it exited (ok: the library is written anew,
\* failed: the library is as it was), which command.output()? does not look at.
LoadOutcomes(reg, name) ==
    LET stale == reg.library[name] # "fresh"
        early == IF stale THEN {[reg |-> reg, language |-> 0, status |-> "none"]} ELSE {}
        compiled == IF stale
                    THEN {[reg |-> [reg EXCEPT !.compiles[name] = @ + 1,
                                               !.library[name] = "fresh"],
                           status |-> "ok"],
                          [reg |-> [reg EXCEPT !.compiles[name] = @ + 1],
                           status |-> "failed"]}
                    ELSE {[reg |-> reg, status |-> "none"]}
        opened(r) == [r EXCEPT !.opens[name] = @ + 1]
        loaded(r) == [opened(r) EXCEPT !.loaded_languages[name] = r.opens[name] + 1]
    IN  early
        \cup {[reg |-> c.reg, language |-> 0, status |-> c.status] : c \in compiled}
        \cup {[reg |-> opened(c.reg), language |-> 0, status |-> c.status] :
                 c \in {q \in compiled : q.reg.library[name] # "missing"}}
        \cup {[reg |-> loaded(c.reg), language |-> c.reg.opens[name] + 1,
               status |-> c.status] :
                 c \in {q \in compiled : q.reg.library[name] # "missing"}}

\* crawl_file taking the registry without waiting for its mutex
lock_registry_unguarded(w, extension) ==
    /\ registry.request[w].pc = "idle"
    /\ registry.requests < MaxRequests
    /\ registry' = [registry EXCEPT !.mutex = w, !.requests = @ + 1,
                                    !.request[w] = [pc |-> "lookup", extension |-> extension,
                                                    language |-> 0, status |-> "none"]]
    /\ UNCHANGED <<query, events, disk, answer, content, db, lock, todo, threads, pc, cur, tree, cursor,
                   visited_node, crawler, before, indexed, last_error, quit, runs, edits>>

\* crawl_file, language_registry.lock().unwrap(): the worker gets the mutex
\* when no worker holds it
lock_registry(w, extension) ==
    /\ registry.request[w].pc = "idle"
    /\ registry.mutex = 0
    /\ registry.requests < MaxRequests
    /\ registry' = [registry EXCEPT !.mutex = w, !.requests = @ + 1,
                                    !.request[w] = [pc |-> "lookup", extension |-> extension,
                                                    language |-> 0, status |-> "none"]]
    /\ UNCHANGED <<query, events, disk, answer, content, db, lock, todo, threads, pc, cur, tree, cursor,
                   visited_node, crawler, before, indexed, last_error, quit, runs, edits>>

\* LanguageRegistry::language_for_file_extension up to its call of
\* load_language_at_path: Ok(None) for an extension of no parser (the guard is
\* dropped), the cached language, or on to the load
language_for_file_extension(w) ==
    /\ registry.request[w].pc = "lookup"
    /\ LET extension == registry.request[w].extension
       IN  IF extension \notin DOMAIN language_names_by_extension
           THEN registry' = [registry EXCEPT !.mutex = IF @ = w THEN 0 ELSE @,
                                             !.request[w].pc = "idle"]
           ELSE LET name == language_names_by_extension[extension]
                IN  IF registry.loaded_languages[name] # 0
                    THEN registry' = [registry EXCEPT
                                         !.request[w].pc = "parsing",
                                         !.request[w].language = registry.loaded_languages[name]]
                    ELSE registry' = [registry EXCEPT !.request[w].pc = "load"]
    /\ UNCHANGED <<query, events, disk, answer, content, db, lock, todo, threads, pc, cur, tree, cursor,
                   visited_node, crawler, before, indexed, last_error, quit, runs, edits>>

\* LanguageRegistry::load_language_at_path, and crawl_file's ? on its result:
\* an error ends the worker (WalkState::Quit) and drops the guard
load_language_at_path(w) ==
    /\ registry.request[w].pc = "load"
    /\ \E outcome \in LoadOutcomes(registry,
                                   language_names_by_extension[registry.request[w].extension]) :
           registry' = [outcome.reg EXCEPT
                            !.mutex = IF outcome.language = 0 /\ @ = w THEN 0 ELSE @,
                            !.request[w].pc = IF outcome.language = 0 THEN "quit" ELSE "parsing",
                            !.request[w].language = outcome.language,
                            !.request[w].status = outcome.status]
    /\ UNCHANGED <<query, events, disk, answer, content, db, lock, todo, threads, pc, cur, tree, cursor,
                   visited_node, crawler, before, indexed, last_error, quit, runs, edits>>

\* crawl_file, the end of its `if let` block: the file is parsed, walked and
\* committed, and the guard of the registry's mutex is dropped
crawl_file_end(w) ==
    /\ registry.request[w].pc = "parsing"
    /\ registry' = [registry EXCEPT !.mutex = IF @ = w THEN 0 ELSE @,
                                    !.request[w].pc = "idle"]
    /\ UNCHANGED <<query, events, disk, answer, content, db, lock, todo, threads, pc, cur, tree, cursor,
                   visited_node, crawler, before, indexed, last_error, quit, runs, edits>>

\* the grammar's parser.c is regenerated: a library built from the old one is
\* older than it
touch_parser(name) ==
    /\ registry.library[name] = "fresh"
    /\ registry' = [registry EXCEPT !.library[name] = "stale"]
    /\ UNCHANGED <<query, events, disk, answer, content, db, lock, todo, threads, pc, cur, tree, cursor,
                   visited_node, crawler, before, indexed, last_error, quit, runs, edits>>

\* a file crawl_file can open, with an extension of a parser, valid UTF-8
SourceFile == [extension |-> "rs", readable |-> TRUE, utf8 |-> TRUE]

\* everything but the files' attributes
InitState ==
    /\ db = EmptyDb
    /\ lock = 0
    /\ cur = [w \in Workers |-> Path1]
    /\ tree = [w \in Workers |-> NoTree]
    /\ cursor = [w \in Workers |-> 1]
    /\ visited_node = [w \in Workers |-> FALSE]
    /\ crawler = [w \in Workers |-> NoCrawler]
    /\ before = [w \in Workers |-> EmptyDb]
    /\ indexed = [p \in Paths |-> NoTree]
    /\ last_error = "ok"
    /\ quit = FALSE
    /\ edits = 0
    /\ answer = NoAnswer
    /\ registry = LanguageRegistry_new
    /\ events = [w \in Workers |-> <<>>]
    /\ query = NoQuery

InitCommon ==
    /\ InitState
    /\ disk = [p \in Paths |-> SourceFile]

\* the store: index commands over two files by all the workers, with edits of
\* the files and clear-index commands in between
Init ==
    /\ InitCommon
    /\ content = [p \in Paths |-> IF p = Path1 THEN TreeA ELSE TreeC]
    /\ todo = {}
    /\ threads = {}
    /\ pc = [w \in Workers |-> "off"]
    /\ runs = 0

Next ==
    \/ start_index
    \/ finish_index
    \/ \E w \in Workers, path \in Paths : crawl_file_begin(w, path)
    \/ \E w \in Workers, path \in Paths : crawl_file_busy(w, path)
    \/ \E w \in Workers : first_child(w)
    \/ \E w \in Workers : no_child(w)
    \/ \E w \in Workers : next_sibling(w)
    \/ \E w \in Workers : parent_node(w)
    \/ \E w \in Workers : end_of_tree(w)
    \/ \E w \in Workers : commit(w)
    \/ \E w \in Workers : step_fails(w)
    \/ \E prefix \in Prefixes : clear_index(prefix)
    \/ \E path \in Paths : modify_file(path)

Spec == Init /\ [][Next]_vars

\* the positions a find-definition command is given: the columns of the
\* first row, and the start of the second
Positions == {Point(0, c) : c \in 0..MaxColumn} \cup {Point(1, 0)}

\* main's find-definition command on a connection of its own: it reads the
\* committed database
main_find_definition(path, position) ==
    /\ \E outcome \in find_definition(db, path, position) :
           answer' = [asked |-> TRUE, path |-> path, position |-> position, seen |-> db,
                      ok |-> outcome.ok, error |-> outcome.error, result |-> outcome.result]
    /\ UNCHANGED <<query, events, disk, registry, content, db, lock, todo, threads, pc, cur, tree, cursor, visited_node,
                   crawler, before, indexed, last_error, quit, runs, edits>>

\* Store::find_definition, lines 57-61: its first statement, in autocommit
\* mode, reads the id of the path's files row from the committed database; no
\* row is the error find_definition returns
find_definition_file_id(path, position) ==
    /\ query = NoQuery
    /\ LET ids == {f.id : f \in {r \in Rows(db.files) : r.path = path}}
       IN  IF ids = {}
           THEN /\ answer' = [asked |-> TRUE, path |-> path, position |-> position,
                              seen |-> db, last |-> db,
                              ok |-> NoRows.ok, error |-> NoRows.error,
                              result |-> NoRows.result]
                /\ query' = query
           ELSE /\ query' = [stage |-> "local", path |-> path, position |-> position,
                             file_id |-> CHOOSE id \in ids : TRUE, seen |-> db]
                /\ answer' = answer
    /\ UNCHANGED <<events, disk, registry, content, db, lock, todo, threads, pc, cur, tree,
                   cursor, visited_node, crawler, before, indexed, last_error, quit, runs,
                   edits>>

\* Store::find_definition, lines 63-93: its second statement reads the
\* committed database as it is now, with the file id the first one got; a row
\* is the answer, no row sends it on to the global query
find_definition_local ==
    /\ query.stage = "local"
    /\ LET local == LocalMatches(db, query.file_id, query.position)
       IN  IF local = {}
           THEN /\ query' = [query EXCEPT !.stage = "global"]
                /\ answer' = answer
           ELSE /\ \E m \in local :
                       answer' = [asked |-> TRUE, path |-> query.path,
                                  position |-> query.position,
                                  seen |-> query.seen, last |-> db,
                                  ok |-> TRUE, error |-> "none",
                                  result |-> <<[path |-> query.path,
                                                position |-> Point(m[2].row, m[2].column),
                                                length |-> m[2].length]>>]
                /\ query' = NoQuery
    /\ UNCHANGED <<events, disk, registry, content, db, lock, todo, threads, pc, cur, tree,
                   cursor, visited_node, crawler, before, indexed, last_error, quit, runs,
                   edits>>

\* Store::find_definition, lines 95-136: its third statement, the global
\* query, reads the committed database as it is now, with the same file id
find_definition_global ==
    /\ query.stage = "global"
    /\ answer' = [asked |-> TRUE, path |-> query.path, position |-> query.position,
                  seen |-> query.seen, last |-> db,
                  ok |-> TRUE, error |-> "none",
                  result |-> GlobalMatches(db, query.file_id, query.position)]
    /\ query' = NoQuery
    /\ UNCHANGED <<events, disk, registry, content, db, lock, todo, threads, pc, cur, tree,
                   cursor, visited_node, crawler, before, indexed, last_error, quit, runs,
                   edits>>

\* the queries: one worker indexes two files, x defined and used in both
\* and e-acute in the second, with clear-index and find-definition commands
\* in between
InitFind ==
    /\ InitCommon
    /\ content = [p \in Paths |-> IF p = Path1 THEN TreeA ELSE TreeD]
    /\ todo = {}
    /\ threads = {}
    /\ pc = [w \in Workers |-> "off"]
    /\ runs = 0

NextFind ==
    \/ start_index
    \/ finish_index
    \/ \E path \in Paths : crawl_file_begin(1, path)
    \/ first_child(1)
    \/ no_child(1)
    \/ next_sibling(1)
    \/ parent_node(1)
    \/ end_of_tree(1)
    \/ commit(1)
    \/ \E prefix \in Prefixes : clear_index(prefix)
    \/ \E path \in Paths, position \in Positions : main_find_definition(path, position)

SpecFind == InitFind /\ [][NextFind]_vars

(***************************************************************************)
(* Facts of a file, row ids and file ids left out                          *)
(***************************************************************************)
Range(s) == {s[i] : i \in DOMAIN s}

\* the rows of a sequence as a bag: row -> how often it occurs
BagOf(s) == [x \in Range(s) |-> Cardinality({i \in DOMAIN s : s[i] = x})]

FileIds(d, path) == {f.id : f \in {r \in Rows(d.files) : r.path = path}}

OfFiles(table, ids) == LET mine(r) == r.file_id \in ids IN SelectSeq(table, mine)

\* where the local definition a local_refs row links to is, row -1 if nowhere
LinkedDef(d, r) ==
    LET linked == {l \in Rows(d.local_defs) : l.id = r.definition_id /\ l.file_id = r.file_id}
    IN  IF linked = {} THEN [row |-> -1, column |-> -1, length |-> 0]
        ELSE LET l == CHOOSE l \in linked : TRUE
             IN  [row |-> l.row, column |-> l.column, length |-> l.length]

\* the facts the files `ids` have in database d
Facts(d, ids) ==
    LET defs == OfFiles(d.defs, ids)
        refs == OfFiles(d.refs, ids)
        local_defs == OfFiles(d.local_defs, ids)
        local_refs == OfFiles(d.local_refs, ids)
    IN  [defs |-> BagOf([i \in DOMAIN defs |->
                     [name |-> defs[i].name, kind |-> defs[i].kind,
                      module_path |-> defs[i].module_path,
                      name_start |-> Point(defs[i].name_start_row, defs[i].name_start_column),
                      start |-> Point(defs[i].start_row, defs[i].start_column),
                      end |-> Point(defs[i].end_row, defs[i].end_column)]]),
         refs |-> BagOf([i \in DOMAIN refs |->
                     [name |-> refs[i].name, kind |-> refs[i].kind,
                      position |-> Point(refs[i].row, refs[i].column)]]),
         local_defs |-> BagOf([i \in DOMAIN local_defs |->
                     [position |-> Point(local_defs[i].row, local_defs[i].column),
                      length |-> local_defs[i].length]]),
         local_refs |-> BagOf([i \in DOMAIN local_refs |->
                     [position |-> Point(local_refs[i].row, local_refs[i].column),
                      length |-> local_refs[i].length,
                      definition |-> LinkedDef(d, local_refs[i])]])]

NoFacts == Facts(EmptyDb, {})

\* the facts one walk of tree t produces, on its own in an empty store
WalkFacts(t) ==
    IF t = NoTree THEN NoFacts
    ELSE LET c == crawl_tree(t, file(EmptyDb, Path1))
         IN  Facts(c.store.db, {c.store.file_id})

\* the facts of path that a connection reading database d sees
FactsOfPath(d, path) == Facts(d, FileIds(d, path))

\* fact rows whose file_id is the id of no files row
Orphans(d) ==
    LET ids == {f.id : f \in Rows(d.files)}
    IN  {r \in Rows(d.defs) \cup Rows(d.refs) \cup Rows(d.local_defs) \cup Rows(d.local_refs) :
            r.file_id \notin ids}

(***************************************************************************)
(* The store's contract                                                    *)
(***************************************************************************)
\* the facts of one walk of each file of the store specification
Expected == [t \in StoreTrees \cup {NoTree} |-> WalkFacts(t)]

\* the databases a connection can read: the committed one, and for a worker
\* inside its file transaction, its own working copy
Views == {db} \cup {crawler[w].store.db : w \in {v \in Workers : pc[v] \in {"walk", "commit"}}}

\* C1: in every reachable store state, after any sequence of index, reindex,
\* aborted index and clear-index, every local_refs row has a non-null
\* definition_id that is the id of an existing local_defs row of the same file
C1_LocalRefsLinked ==
    \A d \in Views : \A r \in Rows(d.local_refs) :
        /\ r.definition_id # 0
        /\ \E l \in Rows(d.local_defs) : l.id = r.definition_id /\ l.file_id = r.file_id

\* local refs of two files are stored in the second index command, after a
\* walk of it was aborted
C1_Witness ==
    /\ runs >= 2 /\ last_error = "err"
    /\ Cardinality({r.file_id : r \in Rows(db.local_refs)}) >= 2

\* C2: for any path at most one files row exists in every reachable state,
\* for any sequence of Store::file, commit, drop without commit and
\* delete_files, with several workers indexing on their own connections
C2_OneRowPerPath ==
    \A d \in Views : \A p \in Paths :
        Cardinality({i \in DOMAIN d.files : d.files[i].path = p}) <= 1

\* a worker is about to commit the reindex of a path that has a committed row
C2_Witness ==
    \E w \in Workers :
        /\ pc[w] = "commit"
        /\ FileIds(db, cur[w]) # {}
        /\ Cardinality(FileIds(crawler[w].store.db, cur[w])) = 1
        /\ \E v \in Workers : pc[v] = "refused"

\* C3: after a file F is reindexed and committed, the store holds for F only
\* the facts the latest walk of F produced, and no defs, refs, local_defs or
\* local_refs row is left behind with the id of a files row that is gone
C3_NoStaleFacts ==
    [][\A w \in Workers :
          pc[w] = "commit" /\ pc'[w] = "idle" =>
              /\ FactsOfPath(db', cur[w]) = Expected[tree[w]]
              /\ Orphans(db') = {}]_vars

\* a worker has committed the reindex of a file whose facts changed
C3_Witness ==
    \E w \in Workers :
        /\ pc[w] = "idle" /\ indexed[cur[w]] = tree[w]
        /\ FactsOfPath(before[w], cur[w]) # NoFacts
        /\ FactsOfPath(db, cur[w]) # FactsOfPath(before[w], cur[w])
        /\ FactsOfPath(db, cur[w]) = Expected[tree[w]]

\* C4: if the walk of a file fails after the file transaction was opened, the
\* transaction is not committed and the store afterwards holds exactly what
\* it held before the attempt
C4_FailedWalkLeavesStore ==
    [][\A w \in Workers :
          pc[w] \in {"walk", "commit"} /\ pc'[w] = "quit" => db' = before[w]]_vars

\* the walk of an edited file that was indexed before has failed
C4_Witness ==
    \E w \in Workers :
        /\ pc[w] = "quit" /\ db = before[w]
        /\ tree[w] # indexed[cur[w]]
        /\ FactsOfPath(db, cur[w]) # NoFacts

\* C5: a reader on another connection, at any point of an interleaving with a
\* worker indexing file F, sees none of the new walk's facts for F or all of
\* them: what it reads for a path is nothing, or the file row with all the
\* facts of the walk last committed for it
C5_AtomicVisibility ==
    \A p \in Paths :
        /\ FileIds(db, p) = {} <=> indexed[p] = NoTree
        /\ FactsOfPath(db, p) = Expected[indexed[p]]

\* a worker has written part of the new facts of a file while the reader
\* still sees the facts of the earlier walk
C5_Witness ==
    \E w \in Workers :
        /\ pc[w] = "walk" /\ indexed[cur[w]] # NoTree
        /\ Facts(crawler[w].store.db, {crawler[w].store.file_id}) # NoFacts
        /\ Facts(crawler[w].store.db, {crawler[w].store.file_id}) # Expected[tree[w]]
        /\ FactsOfPath(db, cur[w]) = Expected[indexed[cur[w]]]

\* C6: indexing a file and then indexing the same unchanged file again yields
\* the same definitions (name, position, kind, module path), refs, local defs
\* and local refs by position, row ids and file ids ignored
C6_ReindexIdempotent ==
    [][\A w \in Workers :
          pc[w] = "commit" /\ pc'[w] = "idle" /\ indexed[cur[w]] = tree[w] =>
              FactsOfPath(db', cur[w]) = FactsOfPath(db, cur[w])]_vars

\* an unchanged file was indexed again: its facts are the same under a new
\* file id
C6_Witness ==
    \E w \in Workers :
        /\ pc[w] = "idle" /\ indexed[cur[w]] = tree[w]
        /\ FileIds(before[w], cur[w]) # {}
        /\ FileIds(db, cur[w]) # FileIds(before[w], cur[w])
        /\ FactsOfPath(db, cur[w]) = FactsOfPath(before[w], cur[w])
        /\ FactsOfPath(db, cur[w]) # NoFacts

\* ---- find-definition contract -------------------------------------------

\* the local_refs rows of `path` whose byte extent covers the position
LocalCover(d, path, position) ==
    {r \in Rows(d.local_refs) :
        /\ r.file_id \in FileIds(d, path)
        /\ r.row = position.row
        /\ r.column <= position.column
        /\ position.column < r.column + r.length}

\* the refs rows of `path` whose byte extent covers the position
GlobalCover(d, path, position) ==
    {r \in Rows(d.refs) :
        /\ r.file_id \in FileIds(d, path)
        /\ r.row = position.row
        /\ r.column <= position.column
        /\ position.column < r.column + ByteLen(r.name)}

\* the definition sites of the names in `names`, one per defs row, as a bag
DefSites(d, names) ==
    LET named(r) == r.name \in names
        rows == SelectSeq(d.defs, named)
    IN  BagOf([k \in DOMAIN rows |->
                  [path |-> (CHOOSE f \in Rows(d.files) : f.id = rows[k].file_id).path,
                   position |-> Point(rows[k].name_start_row, rows[k].name_start_column)]])

\* the sites an answer lists, as a bag
AnswerSites == BagOf([k \in DOMAIN answer.result |->
                         [path |-> answer.result[k].path,
                          position |-> answer.result[k].position]])

\* C12: when a local reference of the queried file covers the position, the
\* answer is exactly one tuple, the queried path with the position and length
\* of the local definition that reference is linked to, whatever global
\* references and definitions exist
C12_LocalStageWins ==
    (answer.asked /\ LocalCover(answer.seen, answer.path, answer.position) # {}) =>
        /\ answer.ok
        /\ Len(answer.result) = 1
        /\ \E r \in LocalCover(answer.seen, answer.path, answer.position) :
               /\ LinkedDef(answer.seen, r).row >= 0
               /\ answer.result[1] =
                      [path |-> answer.path,
                       position |-> Point(LinkedDef(answer.seen, r).row,
                                          LinkedDef(answer.seen, r).column),
                       length |-> LinkedDef(answer.seen, r).length]

\* a query on a local reference that is a global reference too, with
\* definitions of its name in two files
C12_Witness ==
    /\ answer.asked
    /\ answer.ok
    /\ LocalCover(answer.seen, answer.path, answer.position) # {}
    /\ \E g \in GlobalCover(answer.seen, answer.path, answer.position) :
           Cardinality({r.file_id : r \in {q \in Rows(answer.seen.defs) : q.name = g.name}}) = 2

\* C13: when no local reference covers the position and a global reference
\* of the queried file does, the answer has one tuple for each global
\* definition, in any indexed file, of that reference's name, at most 50
C13_GlobalStage ==
    (/\ answer.asked
     /\ LocalCover(answer.seen, answer.path, answer.position) = {}
     /\ GlobalCover(answer.seen, answer.path, answer.position) # {}) =>
        LET names == {g.name : g \in GlobalCover(answer.seen, answer.path, answer.position)}
            sites == DefSites(answer.seen, names)
            total == Cardinality({k \in DOMAIN answer.seen.defs : answer.seen.defs[k].name \in names})
        IN  /\ answer.ok
            /\ IF total <= Limit THEN AnswerSites = sites
               ELSE Len(answer.result) = Limit

\* C14 as the specification states it: a path with no files row gives an empty
\* result
C14_AbsentPathEmpty ==
    (answer.asked /\ FileIds(answer.seen, answer.path) = {}) =>
        (answer.ok /\ answer.result = <<>>)

\* C14: a query on a path that has no files row is answered with an error,
\* never with a list of definitions
C14_AbsentPathFails ==
    (answer.asked /\ FileIds(answer.seen, answer.path) = {}) =>
        (~answer.ok /\ answer.result = <<>>)

\* a query on a path of an index that holds no file at all
C14_Witness ==
    /\ answer.asked
    /\ answer.seen.files = <<>>
    /\ ~answer.ok

\* C15 as the specification states it: the failure is a not-indexed error
C15_NotIndexedError ==
    (answer.asked /\ FileIds(answer.seen, answer.path) = {}) =>
        (~answer.ok /\ answer.error = "NotIndexed")

\* C15: a query on a path that has no files row fails with the query's
\* QueryReturnedNoRows error and that failure is its only outcome, neither
\* the local nor the global stage is run
C15_AbsentPathError ==
    (answer.asked /\ FileIds(answer.seen, answer.path) = {}) =>
        /\ ~answer.ok
        /\ answer.error = "QueryReturnedNoRows"
        /\ find_definition(answer.seen, answer.path, answer.position) = {NoRows}

\* a query on an unindexed path while the other path is indexed, with a
\* reference at the position there
C15_Witness ==
    /\ answer.asked
    /\ FileIds(answer.seen, answer.path) = {}
    /\ answer.error = "QueryReturnedNoRows"
    /\ \E r \in Rows(answer.seen.refs) :
           r.row = answer.position.row /\ r.column = answer.position.column

\* C16: on an indexed file, a position that no local reference and no global
\* reference covers gives an empty result and no error
C16_NothingCovers ==
    (/\ answer.asked
     /\ FileIds(answer.seen, answer.path) # {}
     /\ LocalCover(answer.seen, answer.path, answer.position) = {}
     /\ GlobalCover(answer.seen, answer.path, answer.position) = {}) =>
        (answer.ok /\ answer.result = <<>>)

\* a query just past the end of a reference of an indexed file
C16_Witness ==
    /\ answer.asked
    /\ answer.ok
    /\ answer.result = <<>>
    /\ FileIds(answer.seen, answer.path) # {}
    /\ answer.position.column > 0
    /\ LocalCover(answer.seen, answer.path,
                  Point(answer.position.row, answer.position.column - 1)) # {}
    /\ LocalCover(answer.seen, answer.path, answer.position) = {}
    /\ GlobalCover(answer.seen, answer.path, answer.position) = {}

\* the byte lengths of the nodes of the indexed tree of `path` that start at
\* (row, column)
ByteLengthsAt(path, row, column) ==
    IF indexed[path] = NoTree THEN {}
    ELSE {ByteLen(indexed[path].text[i]) :
             i \in {j \in 1..indexed[path].n : indexed[path].start[j] = Point(row, column)}}

\* C17: every length is a length in bytes: the length column of local_defs
\* and local_refs rows, the length of every answered tuple, and the extent
\* with which a reference covers a queried position
C17_ByteLengths ==
    /\ \A path \in Paths :
           \A r \in Rows(OfFiles(db.local_defs, FileIds(db, path)))
                    \cup Rows(OfFiles(db.local_refs, FileIds(db, path))) :
               r.length \in ByteLengthsAt(path, r.row, r.column)
    /\ answer.asked =>
           \A k \in DOMAIN answer.result :
               \/ \E l \in Rows(answer.seen.local_defs) :
                      /\ l.file_id \in FileIds(answer.seen, answer.result[k].path)
                      /\ Point(l.row, l.column) = answer.result[k].position
                      /\ l.length = answer.result[k].length
               \/ \E g \in Rows(answer.seen.defs) :
                      /\ g.file_id \in FileIds(answer.seen, answer.result[k].path)
                      /\ Point(g.name_start_row, g.name_start_column) = answer.result[k].position
                      /\ ByteLen(g.name) = answer.result[k].length
    /\ (/\ answer.asked
        /\ \E g \in GlobalCover(answer.seen, answer.path, answer.position) :
               \E q \in Rows(answer.seen.defs) : q.name = g.name) =>
           answer.result # <<>>

\* two definitions of x, a use of x, and an empty block: a scope node
\* without children
ShadowTree ==
    MkTree(<<0, 1, 1, 1, 1>>,
           <<NoProps,
             [NoProps EXCEPT !.local_definition = "true"],
             [NoProps EXCEPT !.local_definition = "true"],
             [NoProps EXCEPT !.local_reference = "true"],
             [NoProps EXCEPT !.local_scope = "true", !.scope_type = KindB]>>,
           <<NameX, NameX, NameX, NameX, NameX>>, "rows")

\* a definition of x, a function scope with a use of x, and an empty block
EscapeTree ==
    MkTree(<<0, 1, 1, 3, 1>>,
           <<NoProps,
             [NoProps EXCEPT !.local_definition = "true"],
             [NoProps EXCEPT !.local_scope = "true", !.scope_type = KindF],
             [NoProps EXCEPT !.local_reference = "true"],
             [NoProps EXCEPT !.local_scope = "true", !.scope_type = KindB]>>,
           <<NameX, NameX, NameX, NameX, NameX>>, "rows")

\* ShadowTree and EscapeTree with a token inside the block
ShadowTreeClosed ==
    MkTree(<<0, 1, 1, 1, 1, 5>>,
           <<NoProps,
             [NoProps EXCEPT !.local_definition = "true"],
             [NoProps EXCEPT !.local_definition = "true"],
             [NoProps EXCEPT !.local_reference = "true"],
             [NoProps EXCEPT !.local_scope = "true", !.scope_type = KindB],
             NoProps>>,
           <<NameX, NameX, NameX, NameX, NameX, NameX>>, "rows")

EscapeTreeClosed ==
    MkTree(<<0, 1, 1, 3, 1, 5>>,
           <<NoProps,
             [NoProps EXCEPT !.local_definition = "true"],
             [NoProps EXCEPT !.local_scope = "true", !.scope_type = KindF],
             [NoProps EXCEPT !.local_reference = "true"],
             [NoProps EXCEPT !.local_scope = "true", !.scope_type = KindB],
             NoProps>>,
           <<NameX, NameX, NameX, NameX, NameX, NameX>>, "rows")

\* let x = 1; { let x = 2; x } + x: an outer definition of x, a block with
\* its own definition and use of x and a closing token, and a trailing use
NestedShadowTree ==
    MkTree(<<0, 1, 1, 3, 3, 3, 1>>,
           <<NoProps,
             [NoProps EXCEPT !.local_definition = "true"],
             [NoProps EXCEPT !.local_scope = "true", !.scope_type = KindB],
             [NoProps EXCEPT !.local_definition = "true"],
             [NoProps EXCEPT !.local_reference = "true"],
             NoProps,
             [NoProps EXCEPT !.local_reference = "true"]>>,
           <<NameX, NameX, NameX, NameX, NameX, NameX, NameX>>, "rows")

\* a function scope with a definition of x and an empty block, and a use of
\* x after the function
InnerBlockTree ==
    MkTree(<<0, 1, 2, 2, 1>>,
           <<NoProps,
             [NoProps EXCEPT !.local_scope = "true", !.scope_type = KindF],
             [NoProps EXCEPT !.local_definition = "true"],
             [NoProps EXCEPT !.local_scope = "true", !.scope_type = KindB],
             [NoProps EXCEPT !.local_reference = "true"]>>,
           <<NameX, NameX, NameX, NameX, NameX>>, "rows")

\* a definition of x, then a function scope that uses x before its own
\* definition of x, and a closing token
LaterDefTree ==
    MkTree(<<0, 1, 1, 3, 3, 3>>,
           <<NoProps,
             [NoProps EXCEPT !.local_definition = "true"],
             [NoProps EXCEPT !.local_scope = "true", !.scope_type = KindF],
             [NoProps EXCEPT !.local_reference = "true"],
             [NoProps EXCEPT !.local_definition = "true"],
             NoProps>>,
           <<NameX, NameX, NameX, NameX, NameX, NameX>>, "rows")

WalkTrees ==
    {ShadowTree, EscapeTree, ShadowTreeClosed, EscapeTreeClosed, NestedShadowTree,
     InnerBlockTree, LaterDefTree}

\* the walk: one worker indexes one file, any tree of the scope resolver's bags
InitWalk ==
    /\ InitCommon
    /\ \E t \in TreesOver(ScopeBags \cup {NoProps}, MaxNodes) \cup WalkTrees :
           content = [p \in Paths |-> t]
    /\ todo = {Path1}
    /\ threads = {1}
    /\ pc = [w \in Workers |-> IF w = 1 THEN "idle" ELSE "off"]
    /\ runs = 1

NextWalk ==
    \/ \E path \in Paths : crawl_file_begin(1, path)
    \/ first_child(1)
    \/ no_child(1)
    \/ next_sibling(1)
    \/ parent_node(1)
    \/ end_of_tree(1)
    \/ commit(1)

SpecWalk == InitWalk /\ [][NextWalk]_vars

(***************************************************************************)
(* Scopes as the tree gives them                                           *)
(***************************************************************************)
\* node j opens a scope; the root is never entered
IsScope(t, j) == j # 1 /\ has_property_value(t.props[j], "local_scope", "true")

IsLocalDef(t, i) == i # 1 /\ has_property_value(t.props[i], "local_definition", "true")

IsHoisted(t, i) == has_property(t.props[i], "local_is_hoisted")

IsLocalRef(t, i) ==
    /\ i # 1 /\ has_property_value(t.props[i], "local_reference", "true")
    /\ ~has_property_value(t.props[i], "local_definition", "true")

\* the scope nodes that enclose node i
EnclosingScopes(t, i) == {j \in AncestorsOrSelf(t.parent, t.parent[i]) : IsScope(t, j)}

\* the scope node i's definition or reference belongs to: the nearest
\* enclosing scope of the kind its scope-type asks for, any kind when it asks
\* for none; 0 is the file scope
Holder(t, i) ==
    LET kind == get_property(t.props[i], "scope_type")
        fit == {j \in EnclosingScopes(t, i) :
                   kind = NoVal \/ get_property(t.props[j], "scope_type") = kind}
    IN  IF fit = {} THEN 0 ELSE Max(fit)

\* the scope around scope node j; 0 is the file scope
ParentScope(t, j) == IF EnclosingScopes(t, j) = {} THEN 0 ELSE Max(EnclosingScopes(t, j))

\* where the scope of node j (0: the file scope) sits on a stack that holds
\* the file scope and the scopes enclosing node i
Depth(t, i, j) == 1 + Cardinality({k \in EnclosingScopes(t, i) : k <= j})

PointLT(a, b) == PointGT(b, a)

\* the non-hoisted definitions of node r's name that scope j holds
NamedDefs(t, j, r) ==
    {d \in 1..t.n : IsLocalDef(t, d) /\ ~IsHoisted(t, d) /\ Holder(t, d) = j
                     /\ t.text[d] = t.text[r]}

\* the hoisted definitions of node r's name that scope j holds
HoistedDefs(t, j, r) ==
    {d \in 1..t.n : IsLocalDef(t, d) /\ IsHoisted(t, d) /\ Holder(t, d) = j
                     /\ t.text[d] = t.text[r]}

\* the committed store links a local_refs row at node r to a local_defs row
\* at node d
Linked(t, r, d) ==
    \E row \in Rows(db.local_refs) :
        /\ Point(row.row, row.column) = t.start[r]
        /\ row.length = ByteLen(t.text[r])
        /\ LinkedDef(db, row) =
               [row |-> t.start[d].row, column |-> t.start[d].column,
                length |-> ByteLen(t.text[d])]

\* the walk of the file is committed
Walked == pc[1] = "idle" /\ indexed[Path1] # NoTree

(***************************************************************************)
(* The scope resolver's contract                                           *)
(***************************************************************************)
\* C7: shadowing: when a scope holds two non-hoisted local defs of one name
\* at P1 < P2, P2 the last before a local ref to the name at P3 > P2, the
\* committed local_refs row of the ref links to the local_defs row of the def
\* at P2
C7_Shadowing ==
    Walked =>
        LET t == indexed[Path1]
        IN  \A r \in 1..t.n : IsLocalRef(t, r) =>
                \A d1, d2 \in NamedDefs(t, Holder(t, r), r) :
                    /\ PointLT(t.start[d1], t.start[d2])
                    /\ PointLT(t.start[d2], t.start[r])
                    /\ \A d3 \in NamedDefs(t, Holder(t, r), r) :
                           ~PointGT(t.start[d3], t.start[r]) =>
                               ~PointGT(t.start[d3], t.start[d2])
                    => Linked(t, r, d2)

\* C8: hoisting: a local ref at P1 and a hoisted local def of the same name
\* at a later P2 in the same scope, the only hoisted def of the name there and
\* no non-hoisted def of the name at or before P1, give a committed
\* local_refs row that links the ref to the hoisted def
C8_Hoisting ==
    Walked =>
        LET t == indexed[Path1]
        IN  \A r \in 1..t.n : IsLocalRef(t, r) =>
                \A d \in HoistedDefs(t, Holder(t, r), r) :
                    /\ PointLT(t.start[r], t.start[d])
                    /\ HoistedDefs(t, Holder(t, r), r) = {d}
                    /\ \A e \in NamedDefs(t, Holder(t, r), r) :
                           PointGT(t.start[e], t.start[r])
                    => Linked(t, r, d)

\* C9: escape: a local ref of scope S that matches no def of S moves to the
\* parent scope P when S is popped; when P holds a matching non-hoisted def
\* positioned before S was entered, the last one before the ref, the
\* committed local_refs row of the ref links to that def
C9_Escape ==
    Walked =>
        LET t == indexed[Path1]
        IN  \A r \in 1..t.n : IsLocalRef(t, r) /\ Holder(t, r) # 0 =>
                LET S == Holder(t, r)
                    P == ParentScope(t, S)
                IN  \A d \in NamedDefs(t, P, r) :
                        /\ HoistedDefs(t, S, r) = {}
                        /\ \A e \in NamedDefs(t, S, r) : PointGT(t.start[e], t.start[r])
                        /\ PointLT(t.start[d], t.start[S])
                        /\ \A e \in NamedDefs(t, P, r) :
                               ~PointGT(t.start[e], t.start[r]) =>
                                   ~PointGT(t.start[e], t.start[d])
                        => Linked(t, r, d)

\* scope j (0: the file scope) and the scopes around it
ScopeChain(t, j) == IF j = 0 THEN {0} ELSE {0, j} \cup EnclosingScopes(t, j)

\* a definition of node r's name is held by a scope other than r's own
NameInOtherScope(t, r) ==
    \E d \in 1..t.n : IsLocalDef(t, d) /\ t.text[d] = t.text[r] /\ Holder(t, d) # Holder(t, r)

\* C11: shadowing across scopes: a def of a nested scope S is never the
\* target of a ref of an ancestor scope of S: every committed local_refs row
\* links a ref to a def of the ref's own scope or of a scope around it; and
\* where scopes hold defs of one name, a ref links to the last non-hoisted
\* def of its own scope at or before it (the inner ref to the inner def, the
\* trailing outer ref to the outer def)
C11_ShadowingAcrossScopes ==
    Walked =>
        LET t == indexed[Path1]
        IN  /\ \A row \in Rows(db.local_refs) :
                   \E r, d \in 1..t.n :
                       /\ IsLocalRef(t, r) /\ IsLocalDef(t, d) /\ t.text[d] = t.text[r]
                       /\ t.start[r] = Point(row.row, row.column)
                       /\ LinkedDef(db, row).row = t.start[d].row
                       /\ LinkedDef(db, row).column = t.start[d].column
                       /\ Holder(t, d) \in ScopeChain(t, Holder(t, r))
            /\ \A r \in 1..t.n : IsLocalRef(t, r) /\ NameInOtherScope(t, r) =>
                   \A d \in NamedDefs(t, Holder(t, r), r) :
                       /\ ~PointGT(t.start[d], t.start[r])
                       /\ \A e \in NamedDefs(t, Holder(t, r), r) :
                              ~PointGT(t.start[e], t.start[r]) =>
                                  ~PointGT(t.start[e], t.start[d])
                       => Linked(t, r, d)

\* what enter_node records for a local def or local ref node
Entry(t, i) == [name |-> t.text[i], position |-> t.start[i]]

\* scope is the scope that holds the entry of node i
RecordedIn(scope, t, i) ==
    IF IsLocalRef(t, i) THEN Entry(t, i) \in Range(scope.local_refs)
    ELSE IF IsHoisted(t, i)
         THEN /\ t.text[i] \in DOMAIN scope.hoisted_local_defs
              /\ scope.hoisted_local_defs[t.text[i]] = t.start[i]
    ELSE Entry(t, i) \in Range(scope.local_defs)

\* C10: scope-type targeting: a local def or local ref whose node carries
\* scope-type = K is recorded in the nearest enclosing scope of kind K, inner
\* scopes of other kinds skipped; without scope-type in the innermost
\* enclosing scope; with no enclosing scope of kind K in the file scope at
\* depth 0
C10_ScopeTypeTargeting ==
    LET t == tree[1]
        i == cursor[1]
    IN  /\ pc[1] = "walk" /\ ~visited_node[1]
        /\ IsLocalDef(t, i) \/ IsLocalRef(t, i)
        => LET depth == Depth(t, i, Holder(t, i))
           IN  /\ depth <= Len(crawler[1].scope_stack)
               /\ RecordedIn(crawler[1].scope_stack[depth], t, i)

\* ---- modules and definitions ----------------------------------------------

\* the bags of the definition collector: modules, definitions and their names
ModuleBags ==
    {NoProps,
     [NoProps EXCEPT !.module = "true"],
     [NoProps EXCEPT !.module_part = "name"],
     [NoProps EXCEPT !.definition = "true"],
     [NoProps EXCEPT !.definition_part = "name"]}

\* module x { <unnamed module> { module y { definition e } } }, then a
\* definition y outside every module
NestedModulesTree ==
    MkTree(<<0, 1, 2, 2, 4, 5, 5, 7, 1, 9>>,
           <<NoProps,
             [NoProps EXCEPT !.module = "true"],
             [NoProps EXCEPT !.module_part = "name"],
             [NoProps EXCEPT !.module = "true"],
             [NoProps EXCEPT !.module = "true"],
             [NoProps EXCEPT !.module_part = "name"],
             [NoProps EXCEPT !.definition = "true"],
             [NoProps EXCEPT !.definition_part = "name"],
             [NoProps EXCEPT !.definition = "true"],
             [NoProps EXCEPT !.definition_part = "name"]>>,
           <<NameX, NameX, NameX, NameX, NameY, NameY, NameE, NameE, NameY, NameY>>, "rows")

\* module x { <childless module> }, then a definition e outside every module
LeakedModuleTree ==
    MkTree(<<0, 1, 2, 2, 1, 5>>,
           <<NoProps,
             [NoProps EXCEPT !.module = "true"],
             [NoProps EXCEPT !.module_part = "name"],
             [NoProps EXCEPT !.module = "true"],
             [NoProps EXCEPT !.definition = "true"],
             [NoProps EXCEPT !.definition_part = "name"]>>,
           <<NameX, NameX, NameX, NameX, NameE, NameE>>, "rows")

\* module x { module y { definition e } name x }: the outer module is named
\* after the inner module is closed
LateNameTree ==
    MkTree(<<0, 1, 2, 3, 4, 2>>,
           <<NoProps,
             [NoProps EXCEPT !.module = "true"],
             [NoProps EXCEPT !.module = "true"],
             [NoProps EXCEPT !.definition = "true"],
             [NoProps EXCEPT !.definition_part = "name"],
             [NoProps EXCEPT !.module_part = "name"]>>,
           <<NameX, NameX, NameY, NameE, NameE, NameX>>, "rows")

ModuleTrees == {NestedModulesTree, LeakedModuleTree, LateNameTree}

InitModules ==
    /\ InitCommon
    /\ \E t \in TreesOver(ModuleBags, MaxNodes) \cup ModuleTrees :
           content = [p \in Paths |-> t]
    /\ todo = {Path1}
    /\ threads = {1}
    /\ pc = [w \in Workers |-> IF w = 1 THEN "idle" ELSE "off"]
    /\ runs = 1

SpecModules == InitModules /\ [][NextWalk]_vars

\* the module nodes that enclose node i of tree t, i included, outermost first;
\* the root is never entered
ModuleNodes(t, i) == {j \in AncestorsOrSelf(t.parent, i) \ {1} : t.props[j].module = "true"}

\* the module that is open when node i is entered: the innermost module node
\* around i, 0 for the file's module
OpenModule(t, i) == Max(ModuleNodes(t, i) \cup {0})

\* the name module m (0: the file's) has received once every node up to `upto`
\* has been entered
ModuleName(t, m, upto) ==
    LET namers == {n \in 2..upto : t.props[n].module_part = "name" /\ OpenModule(t, n) = m}
    IN  IF namers = {} THEN None ELSE Some(t.text[Max(namers)])

RECURSIVE NamesAlong(_, _, _)
\* the names of the modules in `modules`, outermost first, unnamed skipped
NamesAlong(t, modules, upto) ==
    IF modules = {} THEN <<>>
    ELSE LET m == Min(modules)
             name == ModuleName(t, m, upto)
         IN  (IF name = None THEN <<>> ELSE <<name[1]>>)
             \o NamesAlong(t, modules \ {m}, upto)

\* the module path of definition node i: the names, when the module holding
\* the definition is closed, of the modules from the file's to that one
ExpectedModulePath(t, i) ==
    LET holder == OpenModule(t, i)
        upto == IF holder = 0 THEN t.n ELSE LastInSubtree(t.parent, t.n, holder)
    IN  JoinPath(NamesAlong(t, ModuleNodes(t, i) \cup {0}, upto))

\* the definition nodes pending in the open module when node n is entered
PendingAt(t, n) ==
    {d \in AncestorsOrSelf(t.parent, n) \ {1} :
        t.props[d].definition = "true" /\ OpenModule(t, d) = OpenModule(t, n)}

\* the definition-part=name nodes that name definition node i
NamersOf(t, i) ==
    {n \in 2..t.n : /\ t.props[n].definition_part = "name"
                    /\ PendingAt(t, n) # {}
                    /\ Max(PendingAt(t, n)) = i}

\* the definition nodes of t that a defs row may stand for: same start, end
\* and, from the last node naming it, name and name position
DefinitionNodesOf(t, r) ==
    {i \in 2..t.n :
        /\ t.props[i].definition = "true"
        /\ t.start[i] = Point(r.start_row, r.start_column)
        /\ t.end[i] = Point(r.end_row, r.end_column)
        /\ NamersOf(t, i) # {}
        /\ r.name = t.text[Max(NamersOf(t, i))]
        /\ Point(r.name_start_row, r.name_start_column) = t.start[Max(NamersOf(t, i))]}

\* C18: the module_path of a defs row is the names of the modules around the
\* definition, outermost first down to the module holding it, unnamed ones
\* skipped, each followed by one tab; empty under no named module
C18_ModulePath ==
    Walked =>
        \A r \in Rows(db.defs) :
            \E i \in 2..indexed[Path1].n :
                /\ indexed[Path1].props[i].definition = "true"
                /\ indexed[Path1].start[i] = Point(r.start_row, r.start_column)
                /\ indexed[Path1].end[i] = Point(r.end_row, r.end_column)
                /\ r.module_path = ExpectedModulePath(indexed[Path1], i)

\* C19: a definition node that received no name before it was left has no
\* defs row: every defs row stands for a definition node that a
\* definition-part=name node named, and carries that name
C19_NoUnnamedDefinition ==
    Walked =>
        \A r \in Rows(db.defs) :
            /\ r.name # <<>>
            /\ DefinitionNodesOf(indexed[Path1], r) # {}

\* ---- the registry's cache -------------------------------------------------

\* the registry: the workers of one process asking for the parsers of files
InitRegistry ==
    /\ InitCommon
    /\ content = [p \in Paths |-> IF p = Path1 THEN TreeA ELSE TreeB]
    /\ todo = {}
    /\ threads = {}
    /\ pc = [w \in Workers |-> "off"]
    /\ runs = 0

NextRegistry ==
    \/ \E w \in Workers, extension \in Extensions : lock_registry(w, extension)
    \/ \E w \in Workers : language_for_file_extension(w)
    \/ \E w \in Workers : load_language_at_path(w)
    \/ \E w \in Workers : crawl_file_end(w)
    \/ \E name \in LanguageNames : touch_parser(name)

SpecRegistry == InitRegistry /\ [][NextRegistry]_vars

\* C20: once a language name is loaded, no step compiles or opens its library
\* again or replaces the cached language, and every request that is answered
\* for an extension of that name gets the cached language, with one worker
\* or several asking
C20_LoadedOnce ==
    [][\A name \in LanguageNames :
           registry.loaded_languages[name] # 0 =>
               /\ registry'.loaded_languages[name] = registry.loaded_languages[name]
               /\ registry'.compiles[name] = registry.compiles[name]
               /\ registry'.opens[name] = registry.opens[name]
               /\ \A w \in Workers :
                      (/\ registry.request[w].pc \in {"lookup", "load"}
                       /\ registry.request[w].extension \in DOMAIN language_names_by_extension
                       /\ language_names_by_extension[registry.request[w].extension] = name
                       /\ registry'.request[w].pc \notin {"lookup", "load"}) =>
                          /\ registry'.request[w].pc = "parsing"
                          /\ registry'.request[w].language = registry.loaded_languages[name]]_vars

\* javascript was loaded for one worker's js file, its parser.c has changed
\* since, and the other worker's jsx file got the same language without a
\* second compile or open
C20_Witness ==
    /\ registry.loaded_languages["javascript"] # 0
    /\ registry.library["javascript"] = "stale"
    /\ registry.compiles["javascript"] = 1
    /\ registry.opens["javascript"] = 1
    /\ \E w, v \in Workers :
           /\ w # v
           /\ registry.request[w].extension = "js"
           /\ registry.request[v].extension = "jsx"
           /\ registry.request[v].pc = "parsing"
           /\ registry.request[w].language = registry.loaded_languages["javascript"]
           /\ registry.request[v].language = registry.loaded_languages["javascript"]

\* ---- clear-index ----------------------------------------------------------

\* byte strings a clear-index command may be given: the empty one, the
\* directory, a byte that occurs inside a path, the paths, and longer ones
AnyPrefixes == {<<>>, <<1>>, <<2>>, Path1, Path2, <<1, 1, 1>>, <<2, 1>>}

\* C24: delete_files(prefix) removes exactly the files rows whose path begins
\* with the prefix; every other files row stays as it is, and so do the
\* facts of its file
C24_DeleteByPrefix ==
    \A prefix \in AnyPrefixes :
        LET after == delete_files(db, prefix)
            kept(r) == ~IsPrefix(prefix, r.path)
        IN  /\ after.files = SelectSeq(db.files, kept)
            /\ \A p \in Paths :
                   ~IsPrefix(prefix, p) =>
                       /\ FileIds(after, p) = FileIds(db, p)
                       /\ OfFiles(after.defs, FileIds(db, p)) = OfFiles(db.defs, FileIds(db, p))
                       /\ OfFiles(after.refs, FileIds(db, p)) = OfFiles(db.refs, FileIds(db, p))
                       /\ OfFiles(after.local_defs, FileIds(db, p))
                              = OfFiles(db.local_defs, FileIds(db, p))
                       /\ OfFiles(after.local_refs, FileIds(db, p))
                              = OfFiles(db.local_refs, FileIds(db, p))

\* both files were indexed, the first before the second, and a clear-index
\* of the first path has left the second file's row and facts
C24_Witness ==
    /\ FileIds(db, Path1) = {}
    /\ indexed[Path1] = NoTree
    /\ \E f \in Rows(db.files) : f.path = Path2 /\ f.id > 1
    /\ FactsOfPath(db, Path2) # NoFacts

\* ---- the walk's stacks and the resolver's order -----------------------------

\* C26: the stacks are balanced: while the cursor is on a node that was
\* entered, the scope stack holds the file scope and one scope per scope node
\* around the node (the node included until it is left), and the module stack
\* the file module and one module per module node; no pop finds a stack
\* empty; when the walk has ended both stacks are empty
C26_BalancedStacks ==
    LET t == tree[1]
        i == cursor[1]
        opened == IF visited_node[1] THEN AncestorsOrSelf(t.parent, i) \ {i}
                  ELSE AncestorsOrSelf(t.parent, i)
    IN  /\ pc[1] # "panicked"
        /\ pc[1] = "walk" =>
               /\ Len(crawler[1].scope_stack)
                      = 1 + Cardinality({j \in opened : IsScope(t, j)})
               /\ Len(crawler[1].module_stack)
                      = 1 + Cardinality({j \in opened \ {1} :
                                            has_property_value(t.props[j], "module", "true")})
        /\ pc[1] = "commit" =>
               /\ crawler[1].scope_stack = <<>>
               /\ crawler[1].module_stack = <<>>

\* the hoisted definition of node r's name that scope j holds and that was
\* entered first
FirstHoisted(t, j, r) == Min(HoistedDefs(t, j, r))

\* C29: hoisted definitions are first-writer-wins: when the scope of a local
\* ref holds several hoisted defs of its name and no non-hoisted def of the
\* name at or before the ref, the committed local_refs row of the ref links
\* to a local_defs row at the position of the hoisted def entered first
C29_HoistedFirstWriter ==
    Walked =>
        LET t == indexed[Path1]
        IN  \A r \in 1..t.n :
                (/\ IsLocalRef(t, r)
                 /\ Cardinality(HoistedDefs(t, Holder(t, r), r)) > 1
                 /\ \A e \in NamedDefs(t, Holder(t, r), r) : PointGT(t.start[e], t.start[r]))
                => Linked(t, r, FirstHoisted(t, Holder(t, r), r))

NamedDefinitions(t) == {i \in 2..t.n : t.props[i].definition = "true" /\ NamersOf(t, i) # {}}

\* C27: every definition node that a definition-part=name node names has
\* exactly one defs row at commit, with the node's start and end, and the
\* name and position of the node naming it; a name node inside a nested
\* definition names the nested one only
C27_OneRowPerDefinition ==
    Walked =>
        \A i \in NamedDefinitions(indexed[Path1]) :
            Cardinality({r \in Rows(db.defs) : i \in DefinitionNodesOf(indexed[Path1], r)}) = 1

\* the number of names in a module path: each name is followed by one tab
RECURSIVE Names(_)
Names(path) ==
    IF path = <<>> THEN 0
    ELSE (IF path[1] = Tab THEN 1 ELSE 0) + Names(Tail(path))

\* C28: the module_path of a defs row is complete: it holds one name for
\* every module around the definition that receives a name during the walk,
\* whenever the walk enters the node that names the module
C28_CompleteModulePath ==
    Walked =>
        \A r \in Rows(db.defs) :
            \E i \in 2..indexed[Path1].n :
                /\ indexed[Path1].props[i].definition = "true"
                /\ indexed[Path1].start[i] = Point(r.start_row, r.start_column)
                /\ indexed[Path1].end[i] = Point(r.end_row, r.end_column)
                /\ Names(r.module_path)
                       = Len(NamesAlong(indexed[Path1],
                                        ModuleNodes(indexed[Path1], i) \cup {0},
                                        indexed[Path1].n))

\* ---- the order of the walk ---------------------------------------------------

RECURSIVE Descending(_)
\* the nodes of a set, the innermost (greatest) first
Descending(nodes) ==
    IF nodes = {} THEN <<>>
    ELSE <<Max(nodes)>> \o Descending(nodes \ {Max(nodes)})

\* the nodes whose subtree ends with node i, i first, then outwards
ClosedBy(t, i) ==
    Descending({j \in AncestorsOrSelf(t.parent, i) : LastInSubtree(t.parent, t.n, j) = i})

RECURSIVE PreOrderPostOrder(_, _)
\* the calls of a pre-order enter / post-order leave walk of nodes i..n of t:
\* a node is entered, then its children, and it is left after the last of them
PreOrderPostOrder(t, i) ==
    IF i > t.n THEN <<>>
    ELSE <<[call |-> "enter_node", node |-> i]>>
         \o [k \in 1..Len(ClosedBy(t, i)) |-> [call |-> "leave_node", node |-> ClosedBy(t, i)[k]]]
         \o PreOrderPostOrder(t, i + 1)

\* C25: the walk is pre-order enter / post-order leave over the whole tree:
\* when crawl_tree has ended, its calls of the handlers are one enter_node per
\* node, the root and the leaves included, before the node's children, and one
\* leave_node per node after them
C25_PreOrderEnterPostOrderLeave ==
    pc[1] = "commit" => events[1] = PreOrderPostOrder(tree[1], 1)

\* ---- crawl_file's way to the parser, and the last-error slot -----------------

\* what crawl_file can meet at a path: an extension of a parser, of none, or
\* no extension; a file the process may read or not; valid UTF-8 or not
FilesOnDisk ==
    [extension : {"rs", "txt", "none"}, readable : BOOLEAN, utf8 : BOOLEAN]

\* one index command over two files of any kind
InitPipeline ==
    /\ InitState
    /\ disk \in [Paths -> FilesOnDisk]
    /\ content = [p \in Paths |-> IF p = Path1 THEN TreeA ELSE TreeC]
    /\ todo = {}
    /\ threads = {}
    /\ pc = [w \in Workers |-> "off"]
    /\ runs = MaxRuns - 1

NextPipeline ==
    \/ start_index
    \/ finish_index
    \/ \E w \in Workers, path \in Paths : crawl_file_open_fails(w, path)
    \/ \E w \in Workers, path \in Paths : crawl_file_no_parser(w, path)
    \/ \E w \in Workers, path \in Paths : crawl_file_read_fails(w, path)
    \/ \E w \in Workers, path \in Paths : crawl_file_begin(w, path)
    \/ \E w \in Workers, path \in Paths : crawl_file_busy(w, path)
    \/ \E w \in Workers : first_child(w)
    \/ \E w \in Workers : no_child(w)
    \/ \E w \in Workers : next_sibling(w)
    \/ \E w \in Workers : parent_node(w)
    \/ \E w \in Workers : end_of_tree(w)
    \/ \E w \in Workers : commit(w)
    \/ \E w \in Workers : step_fails(w)

SpecPipeline == InitPipeline /\ [][NextPipeline]_vars

\* the registry has a parser for the file's extension
HasParser(f) == f.extension \in DOMAIN language_names_by_extension

\* worker w is past the start of crawl_file on its file and not back between
\* files: inside the file's transaction, or ended by an error or a panic
Engaged(w) == pc[w] \in {"walk", "commit", "quit", "panicked"}

\* C21: a file whose extension maps to no parser, or that has no extension,
\* is skipped silently: no worker opens a transaction for it and none ends
\* with an error on it
C21_NoParserSkipped ==
    \A w \in Workers : Engaged(w) => HasParser(disk[cur[w]])

\* C22: a file with a recognized extension whose content is not valid UTF-8
\* is skipped: no worker walks it and none ends with an error on it
C22_NonUtf8Skipped ==
    \A w \in Workers :
        Engaged(w) => ~(/\ HasParser(disk[cur[w]])
                        /\ disk[cur[w]].readable
                        /\ ~disk[cur[w]].utf8)

\* the workers whose processing of a file failed
Failed == {w \in threads : pc[w] \in {"quit", "refused"}}

\* C23: a worker whose processing of a file fails sets the last-error slot
\* and returns Quit: it begins no further file; the failing step leaves the
\* committed database as it is; the slot, once an error, stays one until
\* crawl_path returns it, and crawl_path returns Ok only when no worker failed
C23_LastErrorSlot ==
    [][/\ \A w \in Workers :
              /\ ((pc[w] \notin {"quit", "refused"} /\ pc'[w] \in {"quit", "refused"})
                     => (last_error' = "err" /\ db' = db /\ indexed' = indexed))
              /\ ((pc[w] \in {"quit", "refused"}) => (pc'[w] \in {pc[w], "off"}))
        /\ ((last_error = "err" /\ threads # {}) => (last_error' = "err"))
        /\ ((threads # {} /\ threads' = {}) => ((last_error' = "ok") <=> (Failed = {})))
      ]_vars

\* the index command has returned an error, a worker having failed on one
\* file after the other file was committed, which is still in the store
C23_Witness ==
    /\ threads = {} /\ runs = MaxRuns
    /\ last_error = "err"
    /\ \E p \in Paths : indexed[p] # NoTree /\ FactsOfPath(db, p) # NoFacts

\* ---- a node that is a local definition and a local reference -----------------

\* the bags of a node that is both: plain or hoisted, next to plain
\* definitions, references and scopes
BothBags ==
    {[NoProps EXCEPT !.local_definition = "true", !.local_reference = "true"],
     [NoProps EXCEPT !.local_definition = "true", !.local_reference = "true",
                     !.local_is_hoisted = "true"],
     [NoProps EXCEPT !.local_definition = "true"],
     [NoProps EXCEPT !.local_reference = "true"],
     [NoProps EXCEPT !.local_scope = "true", !.scope_type = KindF]}

\* the walk of one file, any tree of these bags
InitBoth ==
    /\ InitCommon
    /\ \E t \in TreesOver(BothBags, MaxNodes) : content = [p \in Paths |-> t]
    /\ todo = {Path1}
    /\ threads = {1}
    /\ pc = [w \in Workers |-> IF w = 1 THEN "idle" ELSE "off"]
    /\ runs = 1

SpecBoth == InitBoth /\ [][NextWalk]_vars

\* node i is marked local-definition and local-reference
IsDefAndRef(t, i) ==
    /\ i # 1 /\ has_property_value(t.props[i], "local_definition", "true")
    /\ has_property_value(t.props[i], "local_reference", "true")

\* a node that is a local reference only, with this name and position
RefNodeAt(t, name, position) ==
    \E r \in 1..t.n : IsLocalRef(t, r) /\ t.text[r] = name /\ t.start[r] = position

\* C31: a node marked both local-definition and local-reference is recorded
\* as a local definition only: every local ref a scope holds during the walk,
\* and every committed local_refs row, is of a node that is a local reference
\* and not a local definition
C31_DefinitionTakesPrecedence ==
    /\ pc[1] = "walk" =>
           \A k \in 1..Len(crawler[1].scope_stack) :
               \A e \in Range(crawler[1].scope_stack[k].local_refs) :
                   RefNodeAt(tree[1], e.name, e.position)
    /\ Walked =>
           \A row \in Rows(db.local_refs) :
               \E r \in 1..indexed[Path1].n :
                   /\ IsLocalRef(indexed[Path1], r)
                   /\ indexed[Path1].start[r] = Point(row.row, row.column)
                   /\ row.length = ByteLen(indexed[Path1].text[r])

\* a node that is both was walked and committed: it has its local_defs row,
\* a later reference is linked to it, and it has no local_refs row of its own
C31_Witness ==
    /\ Walked
    /\ \E i, r \in 1..indexed[Path1].n :
           /\ IsDefAndRef(indexed[Path1], i)
           /\ IsLocalRef(indexed[Path1], r)
           /\ Linked(indexed[Path1], r, i)
           /\ \A row \in Rows(db.local_refs) :
                  Point(row.row, row.column) # indexed[Path1].start[i]

\* ---- what becomes of a local ref ---------------------------------------------

\* how many entries of the local_refs lists of the open scopes are at `position`
PendingAtPoint(c, position) ==
    LET held(k) == Cardinality({i \in DOMAIN c.scope_stack[k].local_refs :
                                   c.scope_stack[k].local_refs[i].position = position})
        sum[k \in 0..Len(c.scope_stack)] == IF k = 0 THEN 0 ELSE sum[k - 1] + held(k)
    IN  sum[Len(c.scope_stack)]

\* the local_refs rows the worker's transaction holds at `position`
RowsAtPoint(c, position) ==
    Cardinality({i \in DOMAIN c.store.db.local_refs :
                    /\ c.store.db.local_refs[i].file_id = c.store.file_id
                    /\ Point(c.store.db.local_refs[i].row, c.store.db.local_refs[i].column)
                           = position})

\* the local-reference nodes at `position` that enter_node was called on
EnteredRefsAt(w, position) ==
    Cardinality({i \in DOMAIN events[w] :
                    /\ events[w][i].call = "enter_node"
                    /\ IsLocalRef(tree[w], events[w][i].node)
                    /\ tree[w].start[events[w][i].node] = position})

\* the positions of the nodes of worker w's tree
PointsOf(w) == {tree[w].start[i] : i \in 1..tree[w].n}

\* C32: a recorded local ref is never duplicated and ends in one of three
\* ways: while the walk goes on, every local ref entered is in the local_refs
\* list of exactly one open scope or is exactly one local_refs row (popping a
\* scope persists it or moves it to the parent); at the end of the walk none
\* is left in a list: it is a row, or the pop of the file scope discarded it
C32_LocalRefOutcomes ==
    /\ pc[1] = "walk" =>
           \A position \in PointsOf(1) :
               PendingAtPoint(crawler[1], position) + RowsAtPoint(crawler[1], position)
                   = EnteredRefsAt(1, position)
    /\ pc[1] = "commit" =>
           \A position \in PointsOf(1) :
               /\ PendingAtPoint(crawler[1], position) = 0
               /\ RowsAtPoint(crawler[1], position) <= EnteredRefsAt(1, position)

\* ---- a definition-part without a pending definition ----------------------

\* C33: whenever enter_node is called on a node that carries definition-part,
\* the top module has a pending definition: the walker never panics on the
\* unwrap of an absent one
C33_PendingDefinitionPresent ==
    ~(/\ pc[1] = "panicked"
      /\ events[1] # <<>>
      /\ Last(events[1]).call = "enter_node"
      /\ has_property(tree[1].props[Last(events[1]).node], "definition_part"))

\* ---- a query during a reindex ------------------------------------------------

\* the positions asked for: on the call of x in TreeA, and before it
QueryPositions == {Point(0, 0), Point(0, 2)}

\* one worker indexes the two files and indexes them again, with
\* find-definition commands of another process going on, statement by
\* statement
NextQuery ==
    \/ start_index
    \/ finish_index
    \/ \E path \in Paths : crawl_file_begin(1, path)
    \/ first_child(1)
    \/ no_child(1)
    \/ next_sibling(1)
    \/ parent_node(1)
    \/ end_of_tree(1)
    \/ commit(1)
    \/ \E path \in Paths, position \in QueryPositions : find_definition_file_id(path, position)
    \/ find_definition_local
    \/ find_definition_global

SpecQuery == Init /\ [][NextQuery]_vars

\* C34: a find-definition command that runs while the queried file is
\* indexed again returns what the index before or the index after gives: when
\* the committed databases at its first and at its last statement both
\* resolve the position to the same list, and the list is not empty, the
\* command returns that list, not an error and not an empty list
C34_QueryDuringReindex ==
    answer.asked =>
        LET first == find_definition(answer.seen, answer.path, answer.position)
            last == find_definition(answer.last, answer.path, answer.position)
        IN  (/\ first = last
             /\ \A o \in first : o.ok /\ o.result # <<>>)
            => /\ answer.ok
               /\ answer.result # <<>>
               /\ \E o \in first : o.result = answer.result

\* ---- how long the registry's mutex is held -----------------------------------

\* C35: a worker holds the registry's mutex for the registry operation only
\* (lookup, compile, load): a worker that has its parser and parses, walks
\* or commits its file does not hold the mutex, so another worker can get a
\* parser meanwhile
C35_MutexForRegistryOnly ==
    \A w \in Workers : registry.request[w].pc = "parsing" => registry.mutex # w

\* ---- a compiler that fails ---------------------------------------------------

\* C36: a failed compilation of a parser is an io error for the caller of
\* language_for_file_extension: a request whose compiler run failed returns
\* no language, and the name is not loaded or cached by it, a library of an
\* earlier build at the output path or not
C36_CompileFailureSurfaces ==
    \A w \in Workers :
        registry.request[w].status = "failed" =>
            /\ registry.request[w].language = 0
            /\ registry.request[w].pc = "quit"

====
